---------------------------- MODULE Spec2Model ----------------------------
(***************************************************************************)
(* Model of the molvis command/response bridge: one scene (Molvis), its    *)
(* request counter and waiting-slot table, caller threads running send_cmd *)
(* and the operations built on it, and the transport's inbound handler.    *)
(***************************************************************************)
EXTENDS Naturals, Integers, Sequences, FiniteSets, TLC

\* ----------------------------------------------------------------- bounds
MaxRequests == 2        \* requests issued over the scene's lifetime
MaxTimeout == 1         \* timeouts are drawn from 0..MaxTimeout clock ticks
MaxQueue == 1           \* responses the handler may append to one slot
MaxArrivals == 2        \* well-formed responses the peer hands to the handler
MaxScenes == 2          \* scenes constructed over the process's lifetime
MaxSceneRequests == 1   \* blocking requests issued on one scene of the registry
MaxAtoms == 2           \* atoms in a frame handed to a drawing operation

Threads == {"T1", "T2"}

VARIABLES
  request_counter,      \* self._request_counter
  response_queue,       \* self._response_queue: id -> deque of responses
  wire,                 \* what self.send() was handed, in order
  pc,                   \* each caller's position in send_cmd/_wait_for_response
  op,                   \* the operation each caller is running
  request_id,           \* send_cmd's local request_id
  wait_for_response,    \* send_cmd's argument
  timeout,              \* send_cmd's argument
  elapsed,              \* time.time() - start_time of the caller's wait
  pending,              \* what send_cmd returns or raises (decided before finally runs)
  result,               \* what the caller's last operation returned or raised
  ids,                  \* the ids each caller obtained, in order
  timedOut,             \* ids whose blocking send_cmd raised TimeoutError
  firstHandled,         \* first response handled for the caller's id between send and deadline
  handled,              \* what the last run of _handle_custom_msg was given and how it ended
  dropped,              \* the responses handled while no slot existed for their id
  arrivals,             \* how many well-formed responses the handler has been given
  appended,             \* the responses the handler has appended to a slot
  scene_registry,       \* Molvis._scene_registry: name -> scene
  instances,            \* Molvis._instances
  scenes,               \* the scenes constructed: name, _request_counter, _response_queue, sent
  closed,               \* the scenes whose close() has ended
  caller,               \* each thread's position in close/get_scene and its last outcome
  call,                 \* the last fire-style operation: its name, its argument, its outcome
  response_lock,        \* self._response_lock: who holds it
  inbound,              \* the inbound handler's position and the response it was given
  ready                 \* the scene's ready trait, synchronised with the peer

\* One scene's command/response bridge and its callers.
bridgeVars == <<request_counter, response_queue, wire, pc, op, request_id,
                wait_for_response, timeout, elapsed, pending, result, ids, timedOut,
                firstHandled>>

\* The handler's record, kept by the specifications that follow the handler's outcome.
handlerVars == <<handled, dropped, arrivals, appended>>

\* The process-wide registry and the scenes it names.
registryVars == <<scene_registry, instances, scenes, closed, caller>>

\* The record of the fire-style operations.
drawVars == <<call>>

\* The scene's lock and the inbound handler's position, kept by the specification
\* that follows each acquisition and release.
lockVars == <<response_lock, inbound>>

\* The trait that wait_for_ready polls.
readyVars == <<ready>>

\* What the actions of send_cmd and _wait_for_response leave alone.
otherVars == <<handlerVars, registryVars, drawVars, lockVars, readyVars>>

vars == <<bridgeVars, otherVars>>

\* ------------------------------------------------------------ wire values
\* JSON values that a response's "result" may hold: an object (a mapping) or a boolean.
JObj(m) == [t |-> "object", members |-> m]

JBool(v) == [t |-> "bool", b |-> v]

NoContent == [id |-> 0]

OkReply(i, r) == [id |-> i, result |-> r]

ErrReply(i, m) == [id |-> i, error |-> [message |-> m]]

\* A mapping without "id" (scene.py:267-270).
NoIdContent == [result |-> JObj([ok |-> TRUE])]

\* What the peer may hand to the inbound handler of a scene whose callers use send_cmd.
Contents ==
  {OkReply(i, JObj([ok |-> TRUE])) : i \in 1..MaxRequests}
    \cup {ErrReply(i, "boom") : i \in 1..MaxRequests}
    \cup {NoIdContent}

\* Results the peer may give to the call-style operations.
OpResults ==
  { JObj([atoms |-> [x |-> <<1, 2>>], bonds |-> [bondId |-> <<>>]]),
    JObj([data |-> <<"p", ",", "Q", "Q", "=", "=">>]),
    JObj([frameData |-> JObj([blocks |-> [atoms |-> [x |-> <<1>>]], metadata |-> [n |-> 1]])]),
    JObj([current |-> 0]),
    JBool(TRUE) }

\* What the peer may hand to the inbound handler of a scene running call-style operations.
OpContents ==
  {OkReply(i, r) : i \in 1..MaxRequests, r \in OpResults}
    \cup {ErrReply(i, "boom") : i \in 1..MaxRequests}

\* What a call hands back to its caller: a value or an exception; msg holds the
\* peer-supplied messages that an exception's text carries.
Returned(v) == [kind |-> "return", exc |-> "", value |-> v, msg |-> {}]

Raised(e) == [kind |-> "raise", exc |-> e, value |-> NoContent, msg |-> {}]

RaisedWith(e, m) == [kind |-> "raise", exc |-> e, value |-> NoContent, msg |-> m]

NoOutcome == [kind |-> "none", exc |-> "", value |-> NoContent, msg |-> {}]

ReturnedSelf == [kind |-> "self", exc |-> "", value |-> NoContent, msg |-> {}]

NotSeen == [seen |-> FALSE, content |-> NoContent]

\* A thread that has called nothing on the registry.
Resting == [pc |-> "idle", op |-> "none", scene |-> 0, name |-> "", kind |-> "none",
            exc |-> "", value |-> 0, listed |-> FALSE, names |-> {}]

\* No fire-style operation has been called.
NoCall ==
  [op |-> "none", arg |-> [kind |-> "none"], kind |-> "none", exc |-> "", msg |-> {},
   result |-> NoOutcome]

\* scene.py:112: threading.Lock() as constructed, held by nobody.
Free == "free"

\* The inbound handler is not running.
NoInbound == [pc |-> "idle", content |-> NoContent]

\* The handler has not run.
NotHandled == [content |-> [type |-> "none"], log |-> "", raised |-> ""]

Min(a, b) == IF a < b THEN a ELSE b

\* The caller has taken start_time and its wait has not ended.
Clocked(t) == pc[t] \in {"register", "loop"}

\* send() has been called for a blocking request whose call has not ended.
OnWire(t) == wait_for_response[t] /\ pc[t] \in {"register", "loop", "finally"}

\* ------------------------------------------------------------------- Init
\* The classes and one scene as they are after construction.
Constructed ==
  /\ request_counter = 0
  /\ response_queue = <<>>
  /\ wire = <<>>
  /\ pc = [t \in Threads |-> "idle"]
  /\ op = [t \in Threads |-> "none"]
  /\ request_id = [t \in Threads |-> 0]
  /\ wait_for_response = [t \in Threads |-> FALSE]
  /\ timeout = [t \in Threads |-> 0]
  /\ elapsed = [t \in Threads |-> 0]
  /\ pending = [t \in Threads |-> NoOutcome]
  /\ result = [t \in Threads |-> NoOutcome]
  /\ ids = [t \in Threads |-> <<>>]
  /\ timedOut = {}
  /\ firstHandled = [t \in Threads |-> NotSeen]
  /\ handled = NotHandled
  /\ dropped = {}
  /\ arrivals = 0
  /\ appended = {}
  /\ scene_registry = <<>>
  /\ instances = {}
  /\ scenes = <<>>
  /\ closed = {}
  /\ caller = [t \in Threads |-> Resting]
  /\ response_lock = Free
  /\ inbound = NoInbound
  /\ ready = FALSE

Init == Constructed /\ call = NoCall

\* --------------------------------------------------------------- send_cmd
\* scene.py:213: self._request_counter += 1
NextId(c) == c + 1

\* Mutant: the counter is read and written without the lock, so an increment can be lost.
SendCmdIssueUnlocked(t, o, w, to) ==
  /\ pc[t] = "idle"
  /\ request_counter < MaxRequests
  /\ request_counter' \in {NextId(request_counter)} \cup (IF request_counter > 0 THEN {request_counter} ELSE {})
  /\ request_id' = [request_id EXCEPT ![t] = request_counter']
  /\ ids' = [ids EXCEPT ![t] = Append(@, request_counter')]
  /\ op' = [op EXCEPT ![t] = o]
  /\ wait_for_response' = [wait_for_response EXCEPT ![t] = w]
  /\ timeout' = [timeout EXCEPT ![t] = to]
  /\ elapsed' = [elapsed EXCEPT ![t] = 0]
  /\ pending' = [pending EXCEPT ![t] = NoOutcome]
  /\ result' = [result EXCEPT ![t] = NoOutcome]
  /\ firstHandled' = [firstHandled EXCEPT ![t] = NotSeen]
  /\ pc' = [pc EXCEPT ![t] = "send"]
  /\ UNCHANGED <<response_queue, wire, timedOut>>
  /\ UNCHANGED otherVars

\* scene.py:211-214: with self._response_lock: counter += 1; request_id = counter
SendCmdIssue(t, o, w, to) ==
  /\ pc[t] = "idle"
  /\ request_counter < MaxRequests
  /\ request_counter' = NextId(request_counter)
  /\ request_id' = [request_id EXCEPT ![t] = request_counter']
  /\ ids' = [ids EXCEPT ![t] = Append(@, request_counter')]
  /\ op' = [op EXCEPT ![t] = o]
  /\ wait_for_response' = [wait_for_response EXCEPT ![t] = w]
  /\ timeout' = [timeout EXCEPT ![t] = to]
  /\ elapsed' = [elapsed EXCEPT ![t] = 0]
  /\ pending' = [pending EXCEPT ![t] = NoOutcome]
  /\ result' = [result EXCEPT ![t] = NoOutcome]
  /\ firstHandled' = [firstHandled EXCEPT ![t] = NotSeen]
  /\ pc' = [pc EXCEPT ![t] = "send"]
  /\ UNCHANGED <<response_queue, wire, timedOut>>
  /\ UNCHANGED otherVars

\* Mutant: a fire enters _wait_for_response like a call.
SendCmdSendAlwaysWaits(t) ==
  /\ pc[t] = "send"
  /\ wire' = Append(wire, [id |-> request_id[t], method |-> op[t]])
  /\ pc' = [pc EXCEPT ![t] = "register"]
  /\ UNCHANGED <<request_counter, response_queue, op, request_id, wait_for_response,
                 elapsed, pending, ids, timedOut, firstHandled, result, timeout>>
  /\ UNCHANGED otherVars

\* scene.py:216-228,234-235: self.send(json.dumps(...)); a fire returns self, a call
\* enters _wait_for_response: start_time = time.time(); queue = deque()
SendCmdSend(t) ==
  /\ pc[t] = "send"
  /\ wire' = Append(wire, [id |-> request_id[t], method |-> op[t]])
  /\ IF wait_for_response[t]
       THEN /\ pc' = [pc EXCEPT ![t] = "register"]
            /\ UNCHANGED <<result, timeout>>
       ELSE /\ pc' = [pc EXCEPT ![t] = "idle"]
            /\ result' = [result EXCEPT ![t] = ReturnedSelf]
            /\ timeout' = [timeout EXCEPT ![t] = 0]
  /\ UNCHANGED <<request_counter, response_queue, op, request_id, wait_for_response,
                 elapsed, pending, ids, timedOut, firstHandled>>
  /\ UNCHANGED otherVars

\* ----------------------------------------------------- _wait_for_response
\* scene.py:237-238: with lock: self._response_queue[request_id] = queue
WaitRegister(t) ==
  /\ pc[t] = "register"
  /\ response_queue' = [i \in DOMAIN response_queue \cup {request_id[t]} |->
                          IF i = request_id[t] THEN <<>> ELSE response_queue[i]]
  /\ pc' = [pc EXCEPT ![t] = "loop"]
  /\ UNCHANGED <<request_counter, wire, op, request_id, wait_for_response, timeout,
                 elapsed, pending, result, ids, timedOut, firstHandled>>
  /\ UNCHANGED otherVars

\* The caller's deque, reached through the slot table.
QueueOf(t) ==
  IF request_id[t] \in DOMAIN response_queue THEN response_queue[request_id[t]] ELSE <<>>

\* Mutant: the loop never tests the deadline (while True).
WaitLoopNoDeadline(t) ==
  /\ pc[t] = "loop"
  /\ IF QueueOf(t) # <<>>
       THEN /\ pending' = [pending EXCEPT ![t] = Returned(Head(QueueOf(t)))]
            /\ response_queue' = [response_queue EXCEPT ![request_id[t]] = Tail(@)]
            /\ pc' = [pc EXCEPT ![t] = "finally"]
       ELSE UNCHANGED <<pending, response_queue, pc>>
  /\ UNCHANGED <<request_counter, wire, op, request_id, wait_for_response, timeout,
                 elapsed, result, ids, timedOut, firstHandled>>
  /\ UNCHANGED otherVars

\* Mutant: the newest response is taken from the deque (pop() for popleft()).
WaitLoopTakesLast(t) ==
  /\ pc[t] = "loop"
  /\ IF ~(elapsed[t] < timeout[t])
       THEN /\ pending' = [pending EXCEPT ![t] = Raised("TimeoutError")]
            /\ pc' = [pc EXCEPT ![t] = "finally"]
            /\ UNCHANGED response_queue
       ELSE IF QueueOf(t) # <<>>
         THEN /\ pending' = [pending EXCEPT ![t] = Returned(QueueOf(t)[Len(QueueOf(t))])]
              /\ response_queue' = [response_queue EXCEPT ![request_id[t]] =
                                      SubSeq(@, 1, Len(@) - 1)]
              /\ pc' = [pc EXCEPT ![t] = "finally"]
         ELSE UNCHANGED <<pending, response_queue, pc>>
  /\ UNCHANGED <<request_counter, wire, op, request_id, wait_for_response, timeout,
                 elapsed, result, ids, timedOut, firstHandled>>
  /\ UNCHANGED otherVars

\* scene.py:241-249: one pass of the wait loop: the deadline test, then under the lock
\* the test of the deque, then time.sleep(0.01)
WaitLoop(t) ==
  /\ pc[t] = "loop"
  /\ IF ~(elapsed[t] < timeout[t])
       THEN /\ pending' = [pending EXCEPT ![t] = Raised("TimeoutError")]
            /\ pc' = [pc EXCEPT ![t] = "finally"]
            /\ UNCHANGED response_queue
       ELSE IF QueueOf(t) # <<>>
         THEN /\ pending' = [pending EXCEPT ![t] = Returned(Head(QueueOf(t)))]
              /\ response_queue' = [response_queue EXCEPT ![request_id[t]] = Tail(@)]
              /\ pc' = [pc EXCEPT ![t] = "finally"]
         ELSE UNCHANGED <<pending, response_queue, pc>>
  /\ UNCHANGED <<request_counter, wire, op, request_id, wait_for_response, timeout,
                 elapsed, result, ids, timedOut, firstHandled>>
  /\ UNCHANGED otherVars

\* scene.py:247: an exception raised in the caller while it sleeps (KeyboardInterrupt)
WaitInterrupt(t) ==
  /\ pc[t] = "loop"
  /\ pending' = [pending EXCEPT ![t] = Raised("KeyboardInterrupt")]
  /\ pc' = [pc EXCEPT ![t] = "finally"]
  /\ UNCHANGED <<request_counter, response_queue, wire, op, request_id, wait_for_response,
                 timeout, elapsed, result, ids, timedOut, firstHandled>>
  /\ UNCHANGED otherVars

\* Mutant: the slot is never removed.
PopSlotLeak(q, i) == q

\* The slot table after self._response_queue.pop(request_id, None).
PopSlot(q, i) == [j \in DOMAIN q \ {i} |-> q[j]]

\* ------------------------------------------------------ call-style operations
\* selection.py:52-55, frame.py:42-45, snapshot.py:42-45:
\* data = response["result"] if "result" in response else response
Data(response) ==
  IF "result" \in DOMAIN response THEN response.result ELSE JObj(response)

IsDict(v) == v.t = "object"

Has(v, k) == IsDict(v) /\ k \in DOMAIN v.members

\* The peer-supplied error messages that the text of a formatted mapping shows.
MessagesIn(v) ==
  IF Has(v, "error") THEN {v.members.error.message} ELSE {}

\* len(block.get(k, [])) > 0
NonEmptyColumn(block, k) == k \in DOMAIN block /\ Len(block[k]) > 0

Frame(b, m) == [type |-> "Frame", blocks |-> b, metadata |-> m]

EmptyMapping == [k \in {} |-> 0]

\* Mutant: a block is kept whenever the reply has it, selected entities or not.
get_selected_keeping_present(out) ==
  IF out.kind # "return" THEN out
  ELSE LET data == Data(out.value) IN
    IF ~IsDict(data) THEN Raised("AttributeError")
    ELSE Returned(Frame([k \in {"atoms", "bonds"} \cap DOMAIN data.members |-> data.members[k]],
                        EmptyMapping))

\* selection.py:49-68
get_selected(out) ==
  IF out.kind # "return" THEN out
  ELSE LET data == Data(out.value) IN
    IF ~IsDict(data) THEN Raised("AttributeError")
    ELSE LET keep == {k \in {"atoms", "bonds"} :
                        /\ k \in DOMAIN data.members
                        /\ NonEmptyColumn(data.members[k], IF k = "atoms" THEN "x" ELSE "bondId")}
         IN Returned(Frame([k \in keep |-> data.members[k]], EmptyMapping))

\* frame.py:39-55
dump_frame(out) ==
  IF out.kind # "return" THEN out
  ELSE LET data == Data(out.value) IN
    IF ~Has(data, "frameData") THEN Returned(Frame(EmptyMapping, EmptyMapping))
    ELSE LET frame_data == data.members.frameData IN
      IF ~IsDict(frame_data) THEN Raised("AttributeError")
      ELSE Returned(Frame(IF "blocks" \in DOMAIN frame_data.members
                            THEN frame_data.members.blocks ELSE EmptyMapping,
                          IF "metadata" \in DOMAIN frame_data.members
                            THEN frame_data.members.metadata ELSE EmptyMapping))

\* The base64 alphabet.
B64Alphabet ==
  <<"A", "B", "C", "D", "E", "F", "G", "H", "I", "J", "K", "L", "M", "N", "O", "P",
    "Q", "R", "S", "T", "U", "V", "W", "X", "Y", "Z", "a", "b", "c", "d", "e", "f",
    "g", "h", "i", "j", "k", "l", "m", "n", "o", "p", "q", "r", "s", "t", "u", "v",
    "w", "x", "y", "z", "0", "1", "2", "3", "4", "5", "6", "7", "8", "9", "+", "/">>

IsB64(c) == \E i \in DOMAIN B64Alphabet : B64Alphabet[i] = c

B64Value(c) == (CHOOSE i \in DOMAIN B64Alphabet : B64Alphabet[i] = c) - 1

\* The decoder behind base64.b64decode (snapshot.py:55), reading str from position i:
\* characters outside the alphabet are skipped, every four characters give three bytes,
\* a run of "=" that completes a group ends the input, an incomplete group is an error.
RECURSIVE a2b_base64(_, _, _, _, _, _)
a2b_base64(str, i, quad_pos, leftchar, pads, bin) ==
  IF i > Len(str)
    THEN IF quad_pos # 0 THEN [kind |-> "raise", v |-> <<>>] ELSE [kind |-> "return", v |-> bin]
    ELSE IF str[i] = "="
      THEN IF quad_pos >= 2 /\ quad_pos + pads + 1 >= 4
             THEN [kind |-> "return", v |-> bin]
             ELSE a2b_base64(str, i + 1, quad_pos, leftchar,
                             IF quad_pos >= 2 THEN pads + 1 ELSE pads, bin)
      ELSE IF ~IsB64(str[i])
        THEN a2b_base64(str, i + 1, quad_pos, leftchar, pads, bin)
        ELSE LET this_ch == B64Value(str[i])
             IN  CASE quad_pos = 0 -> a2b_base64(str, i + 1, 1, this_ch, 0, bin)
                   [] quad_pos = 1 ->
                        a2b_base64(str, i + 1, 2, this_ch % 16, 0,
                                   Append(bin, (leftchar * 4 + (this_ch \div 16)) % 256))
                   [] quad_pos = 2 ->
                        a2b_base64(str, i + 1, 3, this_ch % 4, 0,
                                   Append(bin, (leftchar * 16 + (this_ch \div 4)) % 256))
                   [] OTHER ->
                        a2b_base64(str, i + 1, 0, 0, 0,
                                   Append(bin, (leftchar * 64 + this_ch) % 256))

\* snapshot.py:55: base64.b64decode(base64_str): the bytes, or binascii.Error
b64decode(str) ==
  LET decoded == a2b_base64(str, 1, 0, 0, 0, <<>>)
  IN  IF decoded.kind = "raise"
        THEN Raised("binascii.Error")
        ELSE Returned([type |-> "bytes", v |-> decoded.v])

\* Mutant: the text is decoded as it came, its prefix included.
Whole(str) == str

\* snapshot.py:48-50: the text after the first comma, the whole text if it has none
AfterComma(str) ==
  IF \E k \in DOMAIN str : str[k] = ","
    THEN LET first == CHOOSE k \in DOMAIN str : str[k] = "," /\ \A j \in 1..(k - 1) : str[j] # ","
         IN SubSeq(str, first + 1, Len(str))
    ELSE str

\* snapshot.py:39-55
snapshot(out) ==
  IF out.kind # "return" THEN out
  ELSE LET data == Data(out.value) IN
    IF ~Has(data, "data") THEN RaisedWith("ValueError", MessagesIn(data))
    ELSE b64decode(AfterComma(data.members.data))

\* widget.py:693-734
get_current_frame(out) ==
  IF out = Raised("TimeoutError") THEN out
  ELSE IF out.kind # "return" THEN out
  ELSE IF "error" \in DOMAIN out.value
    THEN Returned(Frame(EmptyMapping, [error |-> out.value.error.message, method |-> "get_current_frame"]))
  ELSE IF "result" \in DOMAIN out.value /\ ~IsDict(out.value.result)
    THEN Returned(Frame(EmptyMapping, [error |-> "Invalid result format", method |-> "get_current_frame"]))
  ELSE Returned(Frame(IF "result" \in DOMAIN out.value THEN out.value.result.members ELSE EmptyMapping,
                      EmptyMapping))

\* widget.py:746-784
get_frame_info(out) ==
  IF out = Raised("TimeoutError")
    THEN Returned([type |-> "dict", error |-> "Request timed out", method |-> "get_frame_info"])
  ELSE IF out.kind # "return" THEN out
  ELSE IF "error" \in DOMAIN out.value
    THEN Returned([type |-> "dict", error |-> out.value.error.message, method |-> "get_frame_info"])
  ELSE IF "result" \in DOMAIN out.value /\ ~IsDict(out.value.result)
    THEN Returned([type |-> "dict", result |-> out.value.result, method |-> "get_frame_info"])
  ELSE Returned([type |-> "dict",
                 info |-> IF "result" \in DOMAIN out.value THEN out.value.result.members ELSE EmptyMapping])

\* bool(result.get("result", False)): a non-empty mapping is true
Truthy(v) == IF v.t = "bool" THEN v.b ELSE DOMAIN v.members # {}

\* widget.py:889-910
is_grid_enabled(out) ==
  IF out = Raised("TimeoutError") THEN Returned([type |-> "bool", v |-> FALSE])
  ELSE IF out.kind # "return" THEN out
  ELSE IF "error" \in DOMAIN out.value THEN Returned([type |-> "bool", v |-> FALSE])
  ELSE Returned([type |-> "bool",
                 v |-> IF "result" \in DOMAIN out.value THEN Truthy(out.value.result) ELSE FALSE])

CallOps == {"get_selected", "dump_frame", "snapshot",
            "get_current_frame", "get_frame_info", "is_grid_enabled"}

\* The operations whose timeout is fixed (widget.py:695,748,890), not an argument.
FixedTimeoutOps == {"get_current_frame", "get_frame_info", "is_grid_enabled"}

\* What operation o makes of send_cmd's return value or exception.
OpOutcome(o, out) ==
  CASE o = "get_selected" -> get_selected(out)
    [] o = "dump_frame" -> dump_frame(out)
    [] o = "snapshot" -> snapshot(out)
    [] o = "get_current_frame" -> get_current_frame(out)
    [] o = "get_frame_info" -> get_frame_info(out)
    [] o = "is_grid_enabled" -> is_grid_enabled(out)
    [] OTHER -> out

\* The caller leaves _wait_for_response with the slot table q.
Leave(t, q) ==
  /\ pc[t] = "finally"
  /\ response_queue' = q
  /\ timedOut' = IF pending[t] = Raised("TimeoutError")
                   THEN timedOut \cup {request_id[t]} ELSE timedOut
  /\ result' = [result EXCEPT ![t] = OpOutcome(op[t], pending[t])]
  /\ pc' = [pc EXCEPT ![t] = "idle"]
  /\ elapsed' = [elapsed EXCEPT ![t] = 0]
  /\ timeout' = [timeout EXCEPT ![t] = 0]
  /\ firstHandled' = [firstHandled EXCEPT ![t] = NotSeen]
  /\ UNCHANGED <<request_counter, wire, op, request_id, wait_for_response, pending, ids>>
  /\ UNCHANGED otherVars

\* Mutant: the slot is removed after a return only (else: instead of finally:).
WaitFinallyOnReturn(t) ==
  Leave(t, IF pending[t].kind = "return"
             THEN PopSlot(response_queue, request_id[t]) ELSE response_queue)

\* Mutant: the slot is removed in an exception handler only (except: instead of finally:).
WaitFinallyOnRaise(t) ==
  Leave(t, IF pending[t].kind = "raise"
             THEN PopSlot(response_queue, request_id[t]) ELSE response_queue)

\* scene.py:250-252: finally: with lock: self._response_queue.pop(request_id, None);
\* then the return value or the exception reaches the caller
WaitFinally(t) == Leave(t, PopSlot(response_queue, request_id[t]))

\* time.time() advances (scene.py:234,241); elapsed saturates at the timeout
Tick ==
  /\ \E t \in Threads : Clocked(t) /\ elapsed[t] < timeout[t]
  /\ elapsed' = [t \in Threads |->
                   IF Clocked(t) THEN Min(elapsed[t] + 1, timeout[t]) ELSE elapsed[t]]
  /\ UNCHANGED <<request_counter, response_queue, wire, pc, op, request_id,
                 wait_for_response, timeout, pending, result, ids, timedOut, firstHandled>>
  /\ UNCHANGED otherVars

\* ------------------------------------------------------ _handle_custom_msg
\* The deadline of t's wait has not elapsed.
BeforeDeadline(t) == Clocked(t) /\ elapsed[t] < timeout[t]

\* Mutant: the response is appended to every waiting slot, whatever its id.
DeliveredAnySlot(q, c) ==
  IF "id" \in DOMAIN c THEN [i \in DOMAIN q |-> Append(q[i], c)] ELSE q

\* Mutant: a response that finds no slot is kept in a slot of its own.
DeliveredBuffered(q, c) ==
  IF "id" \in DOMAIN c
    THEN [i \in DOMAIN q \cup {c.id} |->
            IF i \in DOMAIN q THEN (IF i = c.id THEN Append(q[i], c) ELSE q[i]) ELSE <<c>>]
    ELSE q

\* scene.py:267-276: the slot table after the handler has seen content c
Delivered(q, c) ==
  IF "id" \in DOMAIN c /\ c.id \in DOMAIN q
    THEN [q EXCEPT ![c.id] = Append(@, c)]
    ELSE q

\* The handler may still append to the slot c is for (the bound on a deque's length).
Room(c) ==
  ("id" \in DOMAIN c /\ c.id \in DOMAIN response_queue) => Len(response_queue[c.id]) < MaxQueue

\* The first response handled for t's id between send() and t's deadline.
Observe(t, c) ==
  IF /\ "id" \in DOMAIN c
     /\ c.id = request_id[t]
     /\ OnWire(t)
     /\ BeforeDeadline(t)
     /\ ~firstHandled[t].seen
    THEN [seen |-> TRUE, content |-> c]
    ELSE firstHandled[t]

\* scene.py:254-280
HandleMsg(c) ==
  /\ Room(c)
  /\ response_queue' = Delivered(response_queue, c)
  /\ UNCHANGED <<request_counter, wire, pc, op, request_id, wait_for_response, timeout,
                 elapsed, pending, result, ids, timedOut, firstHandled>>
  /\ UNCHANGED otherVars

\* scene.py:254-280, with the first response handled for each pending call recorded
HandleMsgObserved(c) ==
  /\ Room(c)
  /\ response_queue' = Delivered(response_queue, c)
  /\ firstHandled' = [t \in Threads |-> Observe(t, c)]
  /\ UNCHANGED <<request_counter, wire, pc, op, request_id, wait_for_response, timeout,
                 elapsed, pending, result, ids, timedOut>>
  /\ UNCHANGED otherVars

\* ------------------------------------- _handle_custom_msg, for any payload
\* Text that json.loads accepts, as the value it yields; text that it rejects.
Text(v) == [json |-> TRUE, value |-> v]

NotJson == [json |-> FALSE]

\* What the transport may pass as `content`: bytes (UTF-8 or not), str, dict, or a
\* value of another type.
Bytes(text) == [type |-> "bytes", utf8 |-> TRUE, text |-> text]

NotUtf8 == [type |-> "bytes", utf8 |-> FALSE]

Str(text) == [type |-> "str", text |-> text]

Dict(c) == [type |-> "dict", value |-> c]

Unexpected == [type |-> "int"]

\* A JSON value that is not a mapping.
JArray == [t |-> "array"]

\* An expression's value, or the exception it raises.
Value(v) == [exc |-> "", v |-> v]

Throws(e) == [exc |-> e]

\* The exception raised and what its message names.
ThrowsWith(e, m) == [exc |-> e, msg |-> m]

\* scene.py:258: content.decode('utf-8')
decode(content) ==
  IF content.utf8 THEN Value(content.text) ELSE Throws("UnicodeDecodeError")

\* scene.py:258,260: json.loads(text)
json_loads(text) ==
  IF text.json THEN Value(text.value) ELSE Throws("JSONDecodeError")

\* scene.py:257-262: the value bound to `response`
Parse(content) ==
  CASE content.type = "bytes" ->
         LET text == decode(content)
         IN  IF text.exc # "" THEN text ELSE json_loads(text.v)
    [] content.type = "str" -> json_loads(content.text)
    [] content.type = "dict" -> Value(JObj(content.value))

\* The payload is a mapping, or parses to one: the mapping; otherwise a mapping without id.
ResponseIn(content) ==
  IF content.type \in {"bytes", "str", "dict"} /\ Parse(content).exc = "" /\ IsDict(Parse(content).v)
    THEN Parse(content).v.members
    ELSE NoIdContent

\* scene.py:257-276: the body of the try statement: the slot table it leaves, what it
\* logs, and the exception that leaves it
TryBody(q, content) ==
  IF content.type \notin {"bytes", "str", "dict"}
    THEN [queue |-> q, log |-> "warning: unexpected response type", exc |-> ""]
    ELSE LET response == Parse(content)
         IN  IF response.exc # ""
               THEN [queue |-> q, log |-> "", exc |-> response.exc]
               ELSE IF ~IsDict(response.v)
                 THEN [queue |-> q, log |-> "", exc |-> "AttributeError"]
                 ELSE IF "id" \notin DOMAIN response.v.members
                   THEN [queue |-> q, log |-> "debug: response missing id", exc |-> ""]
                   ELSE [queue |-> Delivered(q, response.v.members),
                         log |-> IF response.v.members.id \in DOMAIN q
                                   THEN "stored" ELSE "debug: no waiting queue",
                         exc |-> ""]

ParseErrors == {"JSONDecodeError", "UnicodeDecodeError"}

\* Mutant: the handler has the first except clause only.
CaughtParseErrorsOnly(exc) == exc \in ParseErrors

\* scene.py:277-280: except (json.JSONDecodeError, UnicodeDecodeError), except Exception
Caught(exc) == exc \in ParseErrors \cup {"AttributeError", "TypeError"}

\* scene.py:254-280: the whole handler
handle_custom_msg(q, content) ==
  LET body == TryBody(q, content)
  IN  [queue |-> body.queue,
       log |-> IF body.exc = "" THEN body.log
               ELSE IF body.exc \in ParseErrors THEN "warning: failed to parse response"
               ELSE "warning: error handling response",
       raised |-> IF body.exc = "" \/ Caught(body.exc) THEN "" ELSE body.exc]

\* A well-formed response for request i; n tells the peer's responses apart.
Reply(i, n) == OkReply(i, JObj([n |-> n]))

\* The shapes in which the transport may deliver the response c.
ShapesOf(c) == {Dict(c), Str(Text(JObj(c))), Bytes(Text(JObj(c)))}

\* Payloads that carry no response: bytes that are not UTF-8, text that is not JSON,
\* JSON that is not a mapping, a mapping without id, a payload of an unexpected type.
BadPayloads ==
  {NotUtf8, Bytes(NotJson), Str(NotJson), Bytes(Text(JArray)), Str(Text(JArray)), Unexpected}
    \cup ShapesOf(NoIdContent)

\* What the transport may hand to the handler.
Payloads == BadPayloads \cup UNION {ShapesOf(c) : c \in Contents \ {NoIdContent}}

\* scene.py:254-280, with what the handler was given and how it ended recorded
HandleCustomMsg(content) ==
  LET r == handle_custom_msg(response_queue, content)
  IN  /\ Room(ResponseIn(content))
      /\ response_queue' = r.queue
      /\ handled' = [content |-> content, log |-> r.log, raised |-> r.raised]
      /\ UNCHANGED <<request_counter, wire, pc, op, request_id, wait_for_response, timeout,
                     elapsed, pending, result, ids, timedOut, firstHandled, dropped, arrivals,
                     appended>>
      /\ UNCHANGED <<registryVars, drawVars, lockVars, readyVars>>

\* scene.py:254-280 handling the peer's next response, for request i; the responses
\* that found no slot are recorded, with the request counter at that time
HandleReply(i) ==
  LET response == Reply(i, arrivals + 1)
      r == handle_custom_msg(response_queue, Dict(response))
  IN  /\ arrivals < MaxArrivals
      /\ Room(response)
      /\ response_queue' = r.queue
      /\ arrivals' = arrivals + 1
      /\ dropped' = IF r.log = "debug: no waiting queue"
                      THEN dropped \cup {[response |-> response, counter |-> request_counter]}
                      ELSE dropped
      /\ UNCHANGED <<request_counter, wire, pc, op, request_id, wait_for_response, timeout,
                     elapsed, pending, result, ids, timedOut, firstHandled, handled,
                     appended>>
      /\ UNCHANGED <<registryVars, drawVars, lockVars, readyVars>>

\* scene.py:254-280 handling the peer's next response, for request i, one response
\* more than Room allows being let into a slot; the responses appended are recorded
HandleDuplicate(i) ==
  LET response == Reply(i, arrivals + 1)
      r == handle_custom_msg(response_queue, Dict(response))
  IN  /\ arrivals < MaxArrivals
      /\ i \in DOMAIN response_queue => Len(response_queue[i]) <= MaxQueue
      /\ response_queue' = r.queue
      /\ arrivals' = arrivals + 1
      /\ appended' = IF r.queue # response_queue THEN appended \cup {response} ELSE appended
      /\ UNCHANGED <<request_counter, wire, pc, op, request_id, wait_for_response, timeout,
                     elapsed, pending, result, ids, timedOut, firstHandled, handled,
                     dropped>>
      /\ UNCHANGED <<registryVars, drawVars, lockVars, readyVars>>

\* --------------------------------------------------------- scene registry
Scenes == 1..MaxScenes

\* The values session_id may take (scene.py:93).
SessionIds == {1, 2}

\* scene.py:96: f"scene_{session_id}"
GeneratedName(session_id) == IF session_id = 1 THEN "scene_1" ELSE "scene_2"

\* The names a scene may be registered under, and the names callers look up.
Names == {"n"} \cup {GeneratedName(i) : i \in SessionIds}

\* scene.py:96: scene_name = name or f"scene_{session_id}"
scene_name(name, session_id) == IF name # "" THEN name ELSE GeneratedName(session_id)

\* Mutant: every scene is registered under the same key, whatever its name.
RegisteredUnderOneKey(registry, n, self) ==
  [k \in DOMAIN registry \cup {"n"} |-> IF k = "n" THEN self ELSE registry[k]]

\* scene.py:107: Molvis._scene_registry[scene_name] = self
Registered(registry, n, self) ==
  [k \in DOMAIN registry \cup {n} |-> IF k = n THEN self ELSE registry[k]]

\* Mutant: close() leaves the registry as it is.
UnregisteredNot(registry, n) == registry

\* scene.py:172: del Molvis._scene_registry[self.name]
Unregistered(registry, n) == [k \in DOMAIN registry \ {n} |-> registry[k]]

\* scene.py:98-104,111-113: the new scene's own state
NewScene(n) == [name |-> n, request_counter |-> 0, response_queue |-> {}, sent |-> <<>>]

\* scene.py:208-224: the scene after send_cmd has handed a request to the transport
Sent(scene, method) ==
  [scene EXCEPT !.request_counter = NextId(@),
                !.sent = Append(@, [id |-> NextId(scene.request_counter), method |-> method])]

\* scene.py:237-238: the scene after _wait_for_response has registered the slot
Waiting(scene) == [scene EXCEPT !.response_queue = @ \cup {scene.request_counter}]

\* Mutant: the constructor closes the scene that held the name before.
ConstructClosingPrevious(t, name, session_id) ==
  LET self == Len(scenes) + 1
      n == scene_name(name, session_id)
  IN  /\ caller[t].pc = "idle"
      /\ self \in Scenes
      /\ scenes' = Append(IF n \in DOMAIN scene_registry
                            THEN [scenes EXCEPT ![scene_registry[n]] = Sent(@, "clear")]
                            ELSE scenes,
                          NewScene(n))
      /\ scene_registry' = Registered(scene_registry, n, self)
      /\ instances' = instances \cup {self}
      /\ caller' = [caller EXCEPT ![t] = [Resting EXCEPT !.op = "construct", !.scene = self,
                                                          !.name = n, !.kind = "return",
                                                          !.value = self]]
      /\ UNCHANGED <<closed, bridgeVars, handlerVars, drawVars, lockVars, readyVars>>

\* scene.py:76-118: Molvis(name=name), with session_id as drawn at line 93
Construct(t, name, session_id) ==
  LET self == Len(scenes) + 1
      n == scene_name(name, session_id)
  IN  /\ caller[t].pc = "idle"
      /\ self \in Scenes
      /\ scenes' = Append(scenes, NewScene(n))
      /\ scene_registry' = Registered(scene_registry, n, self)
      /\ instances' = instances \cup {self}
      /\ caller' = [caller EXCEPT ![t] = [Resting EXCEPT !.op = "construct", !.scene = self,
                                                          !.name = n, !.kind = "return",
                                                          !.value = self]]
      /\ UNCHANGED <<closed, bridgeVars, handlerVars, drawVars, lockVars, readyVars>>

\* scene.py:171: if self.name in Molvis._scene_registry
CloseTest(t, self) ==
  /\ caller[t].pc = "idle"
  /\ self \in DOMAIN scenes
  /\ self \in instances
  /\ scenes[self].request_counter < MaxRequests
  /\ caller' = [caller EXCEPT ![t] =
                  [Resting EXCEPT !.op = "close", !.scene = self, !.name = scenes[self].name,
                                  !.pc = IF scenes[self].name \in DOMAIN scene_registry
                                           THEN "close_del" ELSE "close_clear"]]
  /\ UNCHANGED <<scene_registry, instances, scenes, closed, bridgeVars, handlerVars, drawVars, lockVars, readyVars>>

\* scene.py:172: del Molvis._scene_registry[self.name]; the statement raises KeyError
\* when the key is no longer there, and close() ends with it
CloseDel(t) ==
  /\ caller[t].pc = "close_del"
  /\ IF caller[t].name \in DOMAIN scene_registry
       THEN /\ scene_registry' = Unregistered(scene_registry, caller[t].name)
            /\ caller' = [caller EXCEPT ![t].pc = "close_clear"]
            /\ UNCHANGED closed
       ELSE /\ caller' = [caller EXCEPT ![t].pc = "idle", ![t].kind = "raise",
                                        ![t].exc = "KeyError"]
            /\ closed' = closed \cup {caller[t].scene}
            /\ UNCHANGED scene_registry
  /\ UNCHANGED <<instances, scenes, bridgeVars, handlerVars, drawVars, lockVars, readyVars>>

\* scene.py:175-180: self.send_cmd("clear", {}); close() returns None
CloseClear(t) ==
  /\ caller[t].pc = "close_clear"
  /\ scenes' = [scenes EXCEPT ![caller[t].scene] = Sent(@, "clear")]
  /\ closed' = closed \cup {caller[t].scene}
  /\ caller' = [caller EXCEPT ![t].pc = "idle", ![t].kind = "return"]
  /\ UNCHANGED <<scene_registry, instances, bridgeVars, handlerVars, drawVars, lockVars, readyVars>>

\* scene.py:138: if name not in cls._scene_registry
GetSceneTest(t, name) ==
  /\ caller[t].pc = "idle"
  /\ caller' = [caller EXCEPT ![t] =
                  [Resting EXCEPT !.op = "get_scene", !.name = name,
                                  !.pc = IF name \notin DOMAIN scene_registry
                                           THEN "get_raise" ELSE "get_return"]]
  /\ UNCHANGED <<scene_registry, instances, scenes, closed, bridgeVars, handlerVars, drawVars, lockVars, readyVars>>

\* scene.py:139-140: available = list(cls._scene_registry.keys()); raise KeyError(
\* f"Scene '{name}' not found. Available scenes: {available}")
GetSceneRaise(t) ==
  /\ caller[t].pc = "get_raise"
  /\ caller' = [caller EXCEPT ![t].pc = "idle", ![t].kind = "raise", ![t].exc = "KeyError",
                              ![t].listed = TRUE, ![t].names = DOMAIN scene_registry]
  /\ UNCHANGED <<scene_registry, instances, scenes, closed, bridgeVars, handlerVars, drawVars, lockVars, readyVars>>

\* scene.py:141: return cls._scene_registry[name]; the subscript raises KeyError(name)
\* when the key is no longer there
GetSceneReturn(t) ==
  /\ caller[t].pc = "get_return"
  /\ IF caller[t].name \in DOMAIN scene_registry
       THEN caller' = [caller EXCEPT ![t].pc = "idle", ![t].kind = "return",
                                     ![t].value = scene_registry[caller[t].name]]
       ELSE caller' = [caller EXCEPT ![t].pc = "idle", ![t].kind = "raise",
                                     ![t].exc = "KeyError"]
  /\ UNCHANGED <<scene_registry, instances, scenes, closed, bridgeVars, handlerVars, drawVars, lockVars, readyVars>>

\* scene.py:143-151: return list(cls._scene_registry.keys())
ListScenes(t) ==
  /\ caller[t].pc = "idle"
  /\ caller' = [caller EXCEPT ![t] =
                  [Resting EXCEPT !.op = "list_scenes", !.kind = "return",
                                  !.names = DOMAIN scene_registry]]
  /\ UNCHANGED <<scene_registry, instances, scenes, closed, bridgeVars, handlerVars, drawVars, lockVars, readyVars>>

\* scene.py:208-238: a blocking send_cmd on the scene, up to the registration of its slot
SceneSendCmd(self) ==
  /\ self \in DOMAIN scenes
  /\ scenes[self].request_counter < MaxSceneRequests
  /\ scenes' = [scenes EXCEPT ![self] = Waiting(Sent(@, "get_selected"))]
  /\ UNCHANGED <<scene_registry, instances, closed, caller, bridgeVars, handlerVars, drawVars, lockVars, readyVars>>

\* scene.py:72: _instances is a WeakSet, so a scene that nothing refers to any more (it is
\* not registered and no operation is running on it) may leave the set at any time
Collect(self) ==
  /\ self \in instances
  /\ \A n \in DOMAIN scene_registry : scene_registry[n] # self
  /\ \A t \in Threads : caller[t].pc # "idle" => caller[t].scene # self
  /\ instances' = instances \ {self}
  /\ UNCHANGED <<scene_registry, scenes, closed, caller, bridgeVars, handlerVars, drawVars, lockVars, readyVars>>

\* scene.py:291-327
BroadcastOps ==
  {"get_frontend_instance_count", "clear_all_frontend_instances", "clear_all_frontend_content"}

\* scene.py:299,313,325: the method name each helper sends
BroadcastMethod(o) ==
  CASE o = "get_frontend_instance_count" -> "get_instance_count"
    [] o = "clear_all_frontend_instances" -> "clear_all_instances"
    [] OTHER -> "clear_all_content"

\* The requests that the helpers have sent so far, through whichever scene.
BroadcastsSent ==
  {<<self, k>> \in (DOMAIN scenes) \X (1..MaxRequests) :
     /\ k \in DOMAIN scenes[self].sent
     /\ \E o \in BroadcastOps : scenes[self].sent[k].method = BroadcastMethod(o)}

\* What self.send may do with the request it is handed: return, or raise.
TransportOutcomes == {"", "Exception"}

\* Mutant: the helper has no exception handler.
Propagated(e) == e

\* scene.py:301-303,314-315,326-327: except Exception: the error is logged, and the
\* helper returns
LoggedOnly(e) == ""

\* The results a peer may give to get_instance_count.
PeerCounts == {1, 2}

\* isinstance(result, int) (scene.py:300) of what send_cmd handed back
isinstance_int(v) == v.kind = "return" /\ v.value \in Int

\* The responses the handler of scene self found no slot for.
DroppedBy(self) == {d \in dropped : d.scene = self}

\* Mutant: the helper returns a count that the peer gave the scene.
InstanceCountFromPeer(first_instance) ==
  IF DroppedBy(first_instance) = {}
    THEN 0
    ELSE (CHOOSE d \in DroppedBy(first_instance) : TRUE).response.result

\* scene.py:299-300: result = first_instance.send_cmd("get_instance_count", {}), which
\* is the scene itself as the call does not wait (scene.py:226-228);
\* return result if isinstance(result, int) else 0
InstanceCount(first_instance) ==
  LET returned == ReturnedSelf
  IN  IF isinstance_int(returned) THEN returned.value ELSE 0

\* scene.py:300,302-303,310-315,322-327: what a helper returns: the count, 0 after an
\* exception, or nothing (written 0)
HelperReturn(o, first_instance, e) ==
  IF o = "get_frontend_instance_count" /\ e = "" THEN InstanceCount(first_instance) ELSE 0

\* scene.py:291-327: instances = list(cls._instances); with no instance the helper
\* returns at once; otherwise instances[0], which may be any member of the set, sends the
\* request without waiting, and the helper returns 0 or None
Broadcast(t, o) ==
  /\ caller[t].pc = "idle"
  /\ IF instances = {}
       THEN /\ caller' = [caller EXCEPT ![t] = [Resting EXCEPT !.op = o, !.kind = "return"]]
            /\ UNCHANGED scenes
       ELSE \E first_instance \in instances, e \in TransportOutcomes :
              /\ scenes[first_instance].request_counter < MaxRequests
              /\ Cardinality(BroadcastsSent) < MaxSceneRequests
              /\ scenes' = [scenes EXCEPT ![first_instance] = Sent(@, BroadcastMethod(o))]
              /\ caller' = [caller EXCEPT ![t] =
                              IF LoggedOnly(e) = ""
                                THEN [Resting EXCEPT !.op = o, !.kind = "return",
                                                     !.scene = first_instance,
                                                     !.value = HelperReturn(o, first_instance, e)]
                                ELSE [Resting EXCEPT !.op = o, !.kind = "raise",
                                                     !.exc = LoggedOnly(e),
                                                     !.scene = first_instance]]
  /\ UNCHANGED <<scene_registry, instances, closed, bridgeVars, handlerVars, drawVars, lockVars, readyVars>>

\* scene.py:254-280 of scene self handling the peer's response to request i of that
\* scene, with result n: it is appended when a slot is registered for i, and otherwise
\* logged and dropped; which of the two happened is recorded
SceneHandleReply(self, i, n) ==
  LET response == OkReply(i, n)
  IN  /\ self \in DOMAIN scenes
      /\ i \in DOMAIN scenes[self].sent
      /\ arrivals < MaxArrivals
      /\ arrivals' = arrivals + 1
      /\ IF i \in scenes[self].response_queue
           THEN /\ appended' = appended \cup {[scene |-> self, response |-> response]}
                /\ UNCHANGED dropped
           ELSE /\ dropped' = dropped \cup {[scene |-> self, response |-> response]}
                /\ UNCHANGED appended
      /\ UNCHANGED <<handled, registryVars, bridgeVars, drawVars, lockVars, readyVars>>

\* ------------------------------------------------------ drawing operations
\* A numpy array or a nested list: its shape and its entries in row-major order.
Array(shape, data) == [shape |-> shape, data |-> data]

Vector(data) == Array(<<Len(data)>>, data)

\* xyz_array.ndim (drawing.py:39)
ndim(a) == Len(a.shape)

\* drawing.py:43-45: xyz_array[:, k - 1]
Column(a, k) == Vector([i \in 1..a.shape[1] |-> a.data[(i - 1) * a.shape[2] + k]])

CoordinateKeys == {"x", "y", "z"}

\* drawing.py:27-47: _normalize_atoms_block
normalize_atoms_block(atoms_block) ==
  IF ~IsDict(atoms_block)
    THEN Throws("ValueError")
    ELSE LET m == atoms_block.members
         IN  IF CoordinateKeys \subseteq DOMAIN m
               THEN Value(atoms_block)
               ELSE IF "xyz" \notin DOMAIN m
                 THEN Throws("ValueError")
                 ELSE IF ndim(m.xyz) # 2 \/ m.xyz.shape[2] # 3
                   THEN Throws("ValueError")
                   ELSE Value(JObj([k \in (DOMAIN m \cup CoordinateKeys) \ {"xyz"} |->
                                      CASE k = "x" -> Column(m.xyz, 1)
                                        [] k = "y" -> Column(m.xyz, 2)
                                        [] k = "z" -> Column(m.xyz, 3)
                                        [] OTHER -> m[k]]))

\* drawing.py:117-128: draw_data, with atoms standing for the normalized atoms block
draw_data(frame_dict, atoms, include_metadata) ==
  LET blocks == frame_dict.members.blocks.members
      copied == [k \in {b \in DOMAIN blocks : IsDict(blocks[b])} |->
                   IF k = "atoms" THEN atoms ELSE blocks[k]]
  IN  IF include_metadata /\ "metadata" \in DOMAIN frame_dict.members
        THEN JObj([blocks |-> JObj(copied), metadata |-> frame_dict.members.metadata])
        ELSE JObj([blocks |-> JObj(copied)])

\* drawing.py:71-137: the params draw_frame builds, or the exception it raises
draw_frame(arg) ==
  IF arg.kind # "frame"
    THEN Throws("TypeError")
    ELSE LET frame_dict == arg.to_dict
         IN  IF frame_dict.t = "raises" \/ ~IsDict(frame_dict)
               THEN Throws("ValueError")
               ELSE IF "blocks" \notin DOMAIN frame_dict.members
                 THEN Throws("ValueError")
                 ELSE IF ~IsDict(frame_dict.members.blocks)
                   THEN Throws("ValueError")
                   ELSE IF "atoms" \notin DOMAIN frame_dict.members.blocks.members
                     THEN Throws("ValueError")
                     ELSE LET atoms_block ==
                                normalize_atoms_block(frame_dict.members.blocks.members.atoms)
                          IN  IF atoms_block.exc # ""
                                THEN atoms_block
                                ELSE Value([frameData |->
                                              draw_data(frame_dict, atoms_block.v,
                                                        arg.include_metadata),
                                            options |-> [style |-> arg.style]])

\* widget.py:287-368: the params this draw_frame builds, or the exception it raises
widget_draw_frame(arg) ==
  IF arg.kind # "frame"
    THEN Throws("TypeError")
    ELSE LET frame_dict == arg.to_dict
         IN  IF frame_dict.t = "raises" \/ ~IsDict(frame_dict)
               THEN Throws("ValueError")
               ELSE IF "blocks" \notin DOMAIN frame_dict.members
                 THEN Throws("ValueError")
                 ELSE IF ~IsDict(frame_dict.members.blocks)
                   THEN Throws("ValueError")
                   ELSE IF "atoms" \notin DOMAIN frame_dict.members.blocks.members
                     THEN Throws("ValueError")
                     ELSE LET atoms_block == frame_dict.members.blocks.members.atoms
                          IN  IF ~IsDict(atoms_block)
                                THEN Throws("ValueError")
                                ELSE IF "xyz" \notin DOMAIN atoms_block.members
                                  THEN Throws("ValueError")
                                  ELSE Value([frameData |->
                                                draw_data(frame_dict, atoms_block,
                                                          arg.include_metadata),
                                              options |-> [style |-> arg.style]])

\* drawing.py:219: required_fields
required_fields == {"matrix", "pbc", "origin"}

\* drawing.py:187-231: the params draw_box builds, or the exception it raises
draw_box(arg) ==
  IF arg.kind # "box"
    THEN Throws("TypeError")
    ELSE LET box_dict == arg.to_dict
         IN  IF box_dict.t = "raises" \/ ~IsDict(box_dict)
               THEN Throws("ValueError")
               ELSE IF required_fields \ DOMAIN box_dict.members # {}
                 THEN ThrowsWith("ValueError", required_fields \ DOMAIN box_dict.members)
                 ELSE Value([boxData |-> box_dict])

\* widget.py:489-492,495,500: isinstance(v, list) and len(v) == 3
IsListOf3(v) == v.list /\ Len(v.items) = 3

\* widget.py:443-513: the params this draw_box builds, or the exception it raises
widget_draw_box(arg) ==
  IF arg.kind # "box"
    THEN Throws("TypeError")
    ELSE LET box_dict == arg.to_dict
         IN  IF box_dict.t = "raises" \/ ~IsDict(box_dict)
               THEN Throws("ValueError")
               ELSE IF required_fields \ DOMAIN box_dict.members # {}
                 THEN ThrowsWith("ValueError", required_fields \ DOMAIN box_dict.members)
                 ELSE LET matrix == box_dict.members.matrix
                          pbc == box_dict.members.pbc
                          origin == box_dict.members.origin
                      IN  IF ~IsListOf3(matrix)
                            THEN Throws("ValueError")
                            ELSE IF \E row \in DOMAIN matrix.items : ~IsListOf3(matrix.items[row])
                              THEN Throws("ValueError")
                              ELSE IF ~IsListOf3(pbc)
                                THEN Throws("ValueError")
                                ELSE IF ~IsListOf3(origin)
                                  THEN Throws("ValueError")
                                  ELSE Value([boxData |-> box_dict])

\* The first element of the trajectory that is not a Frame or whose to_dict() raises.
FirstBad(frames) ==
  LET bad == {i \in DOMAIN frames : frames[i].kind # "frame" \/ frames[i].to_dict.t = "raises"}
  IN  IF bad = {} THEN 0 ELSE CHOOSE i \in bad : \A j \in bad : i <= j

\* widget.py:1082-1101: the params draw_trajectory builds, or the exception it raises
draw_trajectory(arg) ==
  IF ~arg.iterable
    THEN Throws("ValueError")
    ELSE IF FirstBad(arg.frames) # 0
      THEN IF arg.frames[FirstBad(arg.frames)].kind # "frame"
             THEN Throws("ValueError") ELSE Throws("Exception")
      ELSE IF arg.frames = <<>>
        THEN Throws("ValueError")
        ELSE Value([frames |-> [i \in DOMAIN arg.frames |-> arg.frames[i].to_dict]])

\* drawing.py:275-276: getter(key, default)
Get(atom, k, default) == IF k \in DOMAIN atom.fields THEN atom.fields[k] ELSE default

\* drawing.py:268-290: the exception the loop body raises for this atom, if any
AtomFailure(atom) ==
  IF atom.kind # "atom"
    THEN "TypeError"
    ELSE IF "xyz" \in DOMAIN atom.fields
      THEN (IF Len(atom.fields.xyz.data) # 3 THEN "ValueError" ELSE "")
      ELSE IF CoordinateKeys \subseteq DOMAIN atom.fields THEN "" ELSE "ValueError"

\* drawing.py:278-288: x_val, y_val, z_val for k = 1, 2, 3
Coordinate(atom, k) ==
  IF "xyz" \in DOMAIN atom.fields
    THEN atom.fields.xyz.data[k]
    ELSE atom.fields[<<"x", "y", "z">>[k]]

\* drawing.py:74: the styles draw_frame is annotated with
Styles == {"ball_and_stick", "spacefill", "wireframe"}

\* drawing.py:311-318: mp.Frame(blocks={'atoms': atoms_block}) as draw_frame converts it,
\* with the style draw_atoms passes on
FrameOf(atoms_block, style) ==
  [kind |-> "frame", to_dict |-> JObj([blocks |-> JObj([atoms |-> atoms_block])]),
   include_metadata |-> FALSE, style |-> style]

\* drawing.py:236-318: the params draw_atoms has draw_frame build, or the exception raised
draw_atoms(arg) ==
  LET atoms == arg.atoms
      failed == {i \in DOMAIN atoms : AtomFailure(atoms[i]) # ""}
  IN  IF atoms = <<>>
        THEN Throws("ValueError")
        ELSE IF failed # {}
          THEN Throws(AtomFailure(atoms[CHOOSE i \in failed : \A j \in failed : i <= j]))
          ELSE draw_frame(FrameOf(JObj(
                 [x |-> Vector([i \in DOMAIN atoms |-> Coordinate(atoms[i], 1)]),
                  y |-> Vector([i \in DOMAIN atoms |-> Coordinate(atoms[i], 2)]),
                  z |-> Vector([i \in DOMAIN atoms |-> Coordinate(atoms[i], 3)]),
                  element |-> Vector([i \in DOMAIN atoms |->
                                        Get(atoms[i], "element", Get(atoms[i], "symbol", "C"))]),
                  type |-> Vector([i \in DOMAIN atoms |-> Get(atoms[i], "type", 1)])]),
                 arg.style))

\* widget.py:575-592: the exception the loop body raises for this atom, if any
widget_atom_failure(atom) ==
  IF atom.kind # "atom"
    THEN "TypeError"
    ELSE IF "xyz" \notin DOMAIN atom.fields THEN "ValueError" ELSE ""

\* widget.py:600: np.array(xyz_list). Rows of one length make a matrix; rows of differing
\* lengths make an array of objects or raise ValueError, depending on the numpy installed.
np_array(rows) ==
  LET n == Len(rows)
      L == Len(rows[1].data)
  IN  IF \A i \in DOMAIN rows : Len(rows[i].data) = L
        THEN {Value(Array(<<n, L>>, [j \in 1..(n * L) |->
                                       rows[((j - 1) \div L) + 1].data[((j - 1) % L) + 1]]))}
        ELSE {Throws("ValueError"), Value([shape |-> <<n>>, data |-> <<>>, objects |-> rows])}

\* widget.py:518-619: the params draw_atoms may have draw_frame build, or the exceptions
\* it may raise
widget_draw_atoms(arg) ==
  LET atoms == arg.atoms
      failed == {i \in DOMAIN atoms : widget_atom_failure(atoms[i]) # ""}
  IN  IF atoms = <<>>
        THEN {Throws("ValueError")}
        ELSE IF failed # {}
          THEN {Throws(widget_atom_failure(atoms[CHOOSE i \in failed : \A j \in failed : i <= j]))}
          ELSE {IF xyz_array.exc # ""
                  THEN xyz_array
                  ELSE widget_draw_frame(FrameOf(JObj(
                         [xyz |-> xyz_array.v,
                          element |-> Vector([i \in DOMAIN atoms |->
                                                Get(atoms[i], "element", Get(atoms[i], "symbol", "C"))]),
                          type |-> Vector([i \in DOMAIN atoms |-> Get(atoms[i], "type", 1)])]),
                         arg.style)) :
                xyz_array \in np_array([i \in DOMAIN atoms |-> atoms[i].fields.xyz])}

\* The operations that build their params from their arguments and check nothing:
\* drawing.py:49-69,320-348, widget.py:973-1029,1104-1153.
PlainFireOps ==
  {"new_frame", "clear", "set_style", "set_theme", "set_view_mode", "highlight_atoms",
   "clear_highlights", "play_animation", "pause_animation", "set_animation_frame"}

\* The method name an operation puts in its request.
MethodOf(o) ==
  CASE o \in {"widget_draw_frame", "draw_atoms", "widget_draw_atoms"} -> "draw_frame"
    [] o = "widget_draw_box" -> "draw_box"
    [] OTHER -> o

\* What an operation is called with: a Frame, a Box, a list of atom-likes, a trajectory,
\* a value of another type, or arguments that are not checked.
Other == [kind |-> "other"]

Plain == [kind |-> "plain"]

Raises == [t |-> "raises"]

XyzKinds == {"Nx3", "Nx2", "flat"}

\* An xyz entry for n atoms: an n x 3 matrix, an n x 2 matrix, or a flat vector.
Xyz(q, n) ==
  CASE q = "Nx3" -> Array(<<n, 3>>, [j \in 1..(3 * n) |-> 30 + j])
    [] q = "Nx2" -> Array(<<n, 2>>, [j \in 1..(2 * n) |-> 30 + j])
    [] OTHER -> Vector([j \in 1..(3 * n) |-> 30 + j])

AtomsField(k, q, n) ==
  CASE k = "xyz" -> Xyz(q, n)
    [] k = "element" -> Vector([i \in 1..n |-> "C"])
    [] k = "x" -> Vector([i \in 1..n |-> i])
    [] k = "y" -> Vector([i \in 1..n |-> 10 + i])
    [] OTHER -> Vector([i \in 1..n |-> 20 + i])

\* x, y and z of differing lengths.
RaggedAtoms == JObj([x |-> Vector(<<1>>), y |-> Vector(<<11, 12>>), z |-> Vector(<<21>>)])

AtomsBlocks ==
  {JArray, RaggedAtoms} \cup
  {JObj([k \in D |-> AtomsField(k, q, n)]) :
     D \in SUBSET {"x", "y", "z", "xyz", "element"}, q \in XyzKinds, n \in 1..MaxAtoms}

BondsBlock == JObj([i |-> Vector(<<1>>), j |-> Vector(<<2>>)])

Metadata == JObj([step |-> Vector(<<7>>)])

\* What Frame.to_dict() may give.
Conversions ==
  {JArray, Raises, JObj([metadata |-> Metadata]), JObj([blocks |-> JArray]),
   JObj([blocks |-> JObj([bonds |-> BondsBlock])])}
    \cup {JObj([blocks |-> JObj([atoms |-> a])]) : a \in AtomsBlocks}
    \cup {JObj([blocks |-> JObj([atoms |-> a, bonds |-> BondsBlock, note |-> JArray]),
                metadata |-> Metadata]) : a \in AtomsBlocks}

\* The styles an operation is called with: the annotated ones and one that is not.
StyleArgs == Styles \cup {"cartoon"}

FrameArgs ==
  {[kind |-> "frame", to_dict |-> d, include_metadata |-> m, style |-> s] :
     d \in Conversions, m \in BOOLEAN, s \in StyleArgs}

\* A Python list, or a numpy array, of the items.
Listing(isList, items) == [list |-> isList, items |-> items]

\* n rows of m entries each, as nested lists or as a numpy array.
Matrix(isList, n, m) == Listing(isList, [i \in 1..n |-> Listing(isList, [j \in 1..m |-> 0])])

BoxFields(k) ==
  IF k = "matrix"
    THEN {Matrix(TRUE, 3, 3), Matrix(FALSE, 3, 3), Matrix(TRUE, 2, 3), Matrix(TRUE, 3, 2)}
    ELSE {Listing(TRUE, <<0, 0, 0>>), Listing(FALSE, <<0, 0, 0>>), Listing(TRUE, <<0, 0>>)}

WellFormedBox ==
  [k \in required_fields |->
     IF k = "matrix" THEN Matrix(TRUE, 3, 3) ELSE Listing(TRUE, <<0, 0, 0>>)]

\* What Box.to_dict() may give.
BoxConversions ==
  {JArray, Raises}
    \cup {JObj([k \in D |-> WellFormedBox[k]]) : D \in SUBSET required_fields}
    \cup UNION {{JObj([WellFormedBox EXCEPT ![k] = v]) : v \in BoxFields(k)} : k \in required_fields}

BoxArgs == {[kind |-> "box", to_dict |-> d] : d \in BoxConversions}

AtomLikes ==
  {Other,
   [kind |-> "atom", fields |-> [xyz |-> Vector(<<1, 2, 3>>)]],
   [kind |-> "atom", fields |-> [xyz |-> Vector(<<7, 8, 9>>), x |-> 4, y |-> 5, z |-> 6]],
   [kind |-> "atom", fields |-> [xyz |-> Vector(<<1, 2>>), element |-> "H"]],
   [kind |-> "atom", fields |-> [x |-> 4, y |-> 5, z |-> 6, symbol |-> "O", type |-> 2]],
   [kind |-> "atom", fields |-> [x |-> 4, element |-> "H"]]}

AtomsArgs ==
  {[kind |-> "atoms", atoms |-> a, style |-> s] :
     a \in UNION {[1..n -> AtomLikes] : n \in 0..MaxAtoms}, s \in StyleArgs}

\* What a trajectory may hold: a value that is no Frame, a Frame whose atoms block is not
\* a mapping, a Frame whose to_dict() raises, a Frame with xyz, a Frame with x, y, z.
TrajectoryElements ==
  {Other,
   FrameOf(JArray, "ball_and_stick"),
   [FrameOf(JArray, "ball_and_stick") EXCEPT !.to_dict = Raises],
   FrameOf(JObj([xyz |-> Xyz("Nx3", 1)]), "ball_and_stick"),
   FrameOf(JObj([k \in CoordinateKeys |-> AtomsField(k, "Nx3", 1)]), "ball_and_stick")}

TrajectoryArgs ==
  {[kind |-> "trajectory", iterable |-> FALSE, frames |-> <<>>]} \cup
  {[kind |-> "trajectory", iterable |-> TRUE, frames |-> f] :
     f \in UNION {[1..n -> TrajectoryElements] : n \in 0..MaxAtoms}}

Inputs == FrameArgs \cup BoxArgs \cup AtomsArgs \cup TrajectoryArgs \cup {Other, Plain}

\* An operation is about to be called with one of the inputs.
DrawInit == Constructed /\ call \in {[NoCall EXCEPT !.arg = a] : a \in Inputs}

\* Mutant: the request is handed to the transport before the arguments are checked.
FireUnchecked(o, r) ==
  /\ request_counter' = NextId(request_counter)
  /\ wire' = Append(wire, [id |-> request_counter', method |-> MethodOf(o), params |-> r])
  /\ call' = IF r.exc = "" THEN [call EXCEPT !.op = o, !.kind = "self"]
             ELSE [call EXCEPT !.op = o, !.kind = "raise", !.exc = r.exc]

\* The end of every fire-style operation: self.send_cmd(method, params, []); return
\* self (drawing.py:139-140, scene.py:208-228), unless an exception was raised before
Fire(o, r) ==
  IF r.exc = ""
    THEN /\ request_counter' = NextId(request_counter)
         /\ wire' = Append(wire, [id |-> request_counter', method |-> MethodOf(o),
                                  params |-> r.v])
         /\ call' = [call EXCEPT !.op = o, !.kind = "self"]
    ELSE /\ call' = [call EXCEPT !.op = o, !.kind = "raise", !.exc = r.exc,
                                 !.msg = IF "msg" \in DOMAIN r THEN r.msg ELSE {}]
         /\ UNCHANGED <<request_counter, wire>>

\* What the drawing operations leave alone.
undrawnVars == <<response_queue, pc, op, request_id, wait_for_response, timeout, elapsed,
                 pending, result, ids, timedOut, firstHandled, handlerVars, registryVars,
                 lockVars, readyVars>>

\* drawing.py:71-140
DrawFrame ==
  /\ call.op = "none"
  /\ call.arg.kind \in {"frame", "other"}
  /\ Fire("draw_frame", draw_frame(call.arg))
  /\ UNCHANGED undrawnVars

\* widget.py:287-370
WidgetDrawFrame ==
  /\ call.op = "none"
  /\ call.arg.kind \in {"frame", "other"}
  /\ Fire("widget_draw_frame", widget_draw_frame(call.arg))
  /\ UNCHANGED undrawnVars

\* drawing.py:187-234
DrawBox ==
  /\ call.op = "none"
  /\ call.arg.kind \in {"box", "other"}
  /\ Fire("draw_box", draw_box(call.arg))
  /\ UNCHANGED undrawnVars

\* widget.py:443-516
WidgetDrawBox ==
  /\ call.op = "none"
  /\ call.arg.kind \in {"box", "other"}
  /\ Fire("widget_draw_box", widget_draw_box(call.arg))
  /\ UNCHANGED undrawnVars

\* drawing.py:236-318
DrawAtoms ==
  /\ call.op = "none"
  /\ call.arg.kind = "atoms"
  /\ Fire("draw_atoms", draw_atoms(call.arg))
  /\ UNCHANGED undrawnVars

\* widget.py:518-619
WidgetDrawAtoms ==
  /\ call.op = "none"
  /\ call.arg.kind = "atoms"
  /\ \E r \in widget_draw_atoms(call.arg) : Fire("widget_draw_atoms", r)
  /\ UNCHANGED undrawnVars

\* widget.py:1031-1102
DrawTrajectory ==
  /\ call.op = "none"
  /\ call.arg.kind = "trajectory"
  /\ Fire("draw_trajectory", draw_trajectory(call.arg))
  /\ UNCHANGED undrawnVars

\* drawing.py:49-69,320-348, widget.py:973-1029,1104-1153
PlainFire(o) ==
  /\ call.op = "none"
  /\ call.arg.kind = "plain"
  /\ Fire(o, Value(EmptyMapping))
  /\ UNCHANGED undrawnVars

\* ------------------------------------- replies to the call-style operations
\* What the peer may report as selected: no block, a block with no entity, a block with
\* entities, a block without the column that is counted.
SelectionResults ==
  {JObj([k \in D |-> IF k = "atoms" THEN a ELSE b]) :
     D \in SUBSET {"atoms", "bonds"},
     a \in {[x |-> <<>>], [x |-> <<1, 2>>], [element |-> <<"C">>]},
     b \in {[bondId |-> <<>>], [bondId |-> <<5>>], [i |-> <<1>>]}}

\* frameData as a mapping with blocks, metadata, both or neither, or not a mapping.
FrameResults ==
  {JObj([frameData |-> f]) :
     f \in {JObj([blocks |-> [atoms |-> [x |-> <<1>>]], metadata |-> [n |-> 1]]),
            JObj([blocks |-> [atoms |-> [x |-> <<1>>]]]),
            JObj([metadata |-> [n |-> 1]]),
            JArray}}

\* Snapshot texts: plain base64, base64 behind a data-URI prefix, behind an empty prefix,
\* with two commas, and one that is no base64.
SnapshotResults ==
  {JObj([data |-> d]) :
     d \in {<<"Q", "Q", "=", "=">>,
            <<"d", ":", ",", "Q", "Q", "=", "=">>,
            <<",", "Q", "U", "I", "=">>,
            <<"d", ",", "Q", ",", "Q", "=", "=">>,
            <<"Q", "Q">>}}

\* What send_cmd(..., wait_for_response=True) gives the operation: a response with the
\* request's id, or TimeoutError.
ReplyArgs ==
  {[kind |-> "reply", out |-> o] :
     o \in {Returned(OkReply(1, r)) :
              r \in SelectionResults \cup FrameResults \cup SnapshotResults \cup {JBool(TRUE)}}
            \cup {Returned(ErrReply(1, "boom")), Raised("TimeoutError")}}

\* A call-style operation is about to be called; its request will get one of the replies.
ReplyInit == Constructed /\ call \in {[NoCall EXCEPT !.arg = a] : a \in ReplyArgs}

\* The method name a call-style operation puts in its request (snapshot.py:39).
RequestOf(o) == IF o = "snapshot" THEN "take_snapshot" ELSE o

\* selection.py:49-68, frame.py:39-55, snapshot.py:39-55, widget.py:693-734,746-784,
\* 889-910: the request is sent, send_cmd returns or raises, and the operation makes
\* its result of that
CallOp(o) ==
  /\ call.op = "none"
  /\ call.arg.kind = "reply"
  /\ request_counter' = NextId(request_counter)
  /\ wire' = Append(wire, [id |-> request_counter', method |-> RequestOf(o)])
  /\ LET made == OpOutcome(o, call.arg.out)
     IN  call' = [call EXCEPT !.op = o, !.kind = made.kind, !.exc = made.exc,
                              !.result = made]
  /\ UNCHANGED undrawnVars

\* ------------------------------------------------------------------- Next
\* What the callers do: raw send_cmd calls, fire or blocking.
Callers ==
  \/ \E t \in Threads, w \in BOOLEAN, to \in 0..MaxTimeout : SendCmdIssue(t, "send_cmd", w, to)
  \/ \E t \in Threads : SendCmdSend(t)
  \/ \E t \in Threads : WaitRegister(t)
  \/ \E t \in Threads : WaitLoop(t)
  \/ \E t \in Threads : WaitInterrupt(t)
  \/ \E t \in Threads : WaitFinally(t)
  \/ Tick

Next ==
  \/ Callers
  \/ \E c \in Contents : HandleMsg(c)

Spec == Init /\ [][Next]_vars

NextObserved ==
  \/ Callers
  \/ \E c \in Contents : HandleMsgObserved(c)

SpecObserved == Init /\ [][NextObserved]_vars

\* One caller running the call-style operations, one after the other.
OpCaller == "T1"

NextOps ==
  \/ \E o \in CallOps, to \in 0..MaxTimeout :
        /\ (o \in FixedTimeoutOps => to > 0)
        /\ SendCmdIssue(OpCaller, o, TRUE, to)
  \/ SendCmdSend(OpCaller)
  \/ WaitRegister(OpCaller)
  \/ WaitLoop(OpCaller)
  \/ WaitInterrupt(OpCaller)
  \/ WaitFinally(OpCaller)
  \/ Tick
  \/ \E c \in OpContents : HandleMsg(c)

OpsSpec == Init /\ [][NextOps]_vars

\* One caller using send_cmd, and a transport that may hand any payload to the handler.
NextHandler ==
  \/ \E w \in BOOLEAN, to \in 0..MaxTimeout : SendCmdIssue(OpCaller, "send_cmd", w, to)
  \/ SendCmdSend(OpCaller)
  \/ WaitRegister(OpCaller)
  \/ WaitLoop(OpCaller)
  \/ WaitFinally(OpCaller)
  \/ Tick
  \/ \E content \in Payloads : HandleCustomMsg(content)

HandlerSpec == Init /\ [][NextHandler]_vars

\* One caller using send_cmd, and a peer whose responses may come at any time, for any id.
NextReplies ==
  \/ \E w \in BOOLEAN, to \in 0..MaxTimeout : SendCmdIssue(OpCaller, "send_cmd", w, to)
  \/ SendCmdSend(OpCaller)
  \/ WaitRegister(OpCaller)
  \/ WaitLoop(OpCaller)
  \/ WaitFinally(OpCaller)
  \/ Tick
  \/ \E i \in 1..MaxRequests : HandleReply(i)

RepliesSpec == Init /\ [][NextReplies]_vars

\* One caller using send_cmd, and a peer that may answer one request several times.
NextDuplicates ==
  \/ \E w \in BOOLEAN, to \in 0..MaxTimeout : SendCmdIssue(OpCaller, "send_cmd", w, to)
  \/ SendCmdSend(OpCaller)
  \/ WaitRegister(OpCaller)
  \/ WaitLoop(OpCaller)
  \/ WaitFinally(OpCaller)
  \/ Tick
  \/ \E i \in 1..MaxRequests : HandleDuplicate(i)

DuplicatesSpec == Init /\ [][NextDuplicates]_vars

\* One thread constructing, closing and looking up scenes, one operation after the other.
NextRegistry ==
  \/ \E name \in {"n", ""}, session_id \in SessionIds : Construct(OpCaller, name, session_id)
  \/ \E self \in Scenes : CloseTest(OpCaller, self)
  \/ CloseDel(OpCaller)
  \/ CloseClear(OpCaller)
  \/ \E name \in Names : GetSceneTest(OpCaller, name)
  \/ GetSceneRaise(OpCaller)
  \/ GetSceneReturn(OpCaller)
  \/ ListScenes(OpCaller)
  \/ \E self \in Scenes : SceneSendCmd(self)

RegistrySpec == Init /\ [][NextRegistry]_vars

\* Threads constructing, closing and looking up scenes concurrently.
NextRace ==
  \/ \E t \in Threads, name \in {"n", ""}, session_id \in SessionIds : Construct(t, name, session_id)
  \/ \E t \in Threads, self \in Scenes : CloseTest(t, self)
  \/ \E t \in Threads : CloseDel(t)
  \/ \E t \in Threads : CloseClear(t)
  \/ \E t \in Threads, name \in Names : GetSceneTest(t, name)
  \/ \E t \in Threads : GetSceneRaise(t)
  \/ \E t \in Threads : GetSceneReturn(t)
  \/ \E t \in Threads : ListScenes(t)
  \/ \E self \in Scenes : SceneSendCmd(self)

RaceSpec == Init /\ [][NextRace]_vars

\* One thread constructing scenes, closing each at most once and calling the broadcast
\* helpers, while scenes that are no longer referred to leave the instance set.
NextBroadcast ==
  \/ \E name \in {"n", ""} : Construct(OpCaller, name, 1)
  \/ \E self \in Scenes \ closed : CloseTest(OpCaller, self)
  \/ CloseDel(OpCaller)
  \/ CloseClear(OpCaller)
  \/ \E self \in Scenes : Collect(self)
  \/ \E o \in BroadcastOps : Broadcast(OpCaller, o)

BroadcastSpec == Init /\ [][NextBroadcast]_vars

\* Scenes constructed, closed and collected, the instance count asked for, and the peer
\* answering the requests it was sent.
NextCount ==
  \/ Construct(OpCaller, "", 1)
  \/ \E self \in Scenes \ closed : CloseTest(OpCaller, self)
  \/ CloseDel(OpCaller)
  \/ CloseClear(OpCaller)
  \/ \E self \in Scenes : Collect(self)
  \/ Broadcast(OpCaller, "get_frontend_instance_count")
  \/ \E self \in Scenes, i \in 1..MaxRequests, n \in PeerCounts : SceneHandleReply(self, i, n)

CountSpec == Init /\ [][NextCount]_vars

\* One fire-style operation called once, on each of the inputs.
NextDraw ==
  \/ DrawFrame
  \/ WidgetDrawFrame
  \/ DrawBox
  \/ WidgetDrawBox
  \/ DrawAtoms
  \/ WidgetDrawAtoms
  \/ DrawTrajectory
  \/ \E o \in PlainFireOps : PlainFire(o)

DrawSpec == DrawInit /\ [][NextDraw]_vars

\* One call-style operation called once, on each of the replies.
NextReply == \E o \in CallOps : CallOp(o)

ReplySpec == ReplyInit /\ [][NextReply]_vars

\* One caller running the fire-style operations that check nothing, one after the
\* other (drawing.py:49-69,320-348: self.send_cmd(method, params, [])), while the peer
\* sends responses at any time.
NextFire ==
  \/ \E o \in PlainFireOps : SendCmdIssue(OpCaller, o, FALSE, MaxTimeout)
  \/ SendCmdSend(OpCaller)
  \/ \E i \in 1..MaxRequests : HandleReply(i)

FireSpec == Init /\ [][NextFire]_vars

\* Callers that are never interrupted, and a peer that answers with results only.
NextLive ==
  \/ \E t \in Threads, w \in BOOLEAN, to \in 0..MaxTimeout : SendCmdIssue(t, "send_cmd", w, to)
  \/ \E t \in Threads : SendCmdSend(t)
  \/ \E t \in Threads : WaitRegister(t)
  \/ \E t \in Threads : WaitLoop(t)
  \/ \E t \in Threads : WaitFinally(t)
  \/ Tick
  \/ \E i \in 1..MaxRequests : HandleMsg(OkReply(i, JObj([ok |-> TRUE])))

\* Each caller's next step and the clock are scheduled fairly; the peer need never answer.
Fairness ==
  /\ \A t \in Threads : WF_vars(SendCmdSend(t))
  /\ \A t \in Threads : WF_vars(WaitRegister(t))
  /\ \A t \in Threads : WF_vars(WaitLoop(t))
  /\ \A t \in Threads : WF_vars(WaitFinally(t))
  /\ WF_vars(Tick)

LiveSpec == Init /\ [][NextLive]_vars /\ Fairness

\* scene.py:254-280, called by a transport that dispatches inbound messages on the
\* thread that issues the commands: the handler runs only between two operations
HostHandleReply(i) ==
  /\ pc[OpCaller] = "idle"
  /\ HandleReply(i)

\* One host thread that issues send_cmd and, between two calls, runs the handler.
NextSameThread ==
  \/ \E w \in BOOLEAN, to \in 0..MaxTimeout : SendCmdIssue(OpCaller, "send_cmd", w, to)
  \/ SendCmdSend(OpCaller)
  \/ WaitRegister(OpCaller)
  \/ WaitLoop(OpCaller)
  \/ WaitFinally(OpCaller)
  \/ Tick
  \/ \E i \in 1..MaxRequests : HostHandleReply(i)

SameThreadSpec == Init /\ [][NextSameThread]_vars /\ Fairness

\* ------------------------------------------------------- _response_lock
\* What the steps that follow the lock leave alone.
unlockedVars == <<op, timeout, elapsed, ids, timedOut, firstHandled, handlerVars,
                  registryVars, drawVars, readyVars>>

\* The positions at which a caller waits to enter a with self._response_lock block
\* (scene.py:212, 237, 242, 251).
Entering == {"lock_counter", "lock_register", "lock_check", "lock_pop"}

\* The block a caller is in once the lock is its own.
Entered(p) ==
  CASE p = "lock_counter" -> "counter"
    [] p = "lock_register" -> "register"
    [] p = "lock_check" -> "check"
    [] OTHER -> "pop"

\* Calls of send_cmd that have begun: the ids given out and the calls about to take one.
Begun == request_counter + Cardinality({t \in Threads : pc[t] \in {"lock_counter", "counter"}})

\* scene.py:186-212: send_cmd is called and reaches the first with block
LockCall(t, w) ==
  /\ pc[t] = "idle"
  /\ Begun < MaxRequests
  /\ pc' = [pc EXCEPT ![t] = "lock_counter"]
  /\ wait_for_response' = [wait_for_response EXCEPT ![t] = w]
  /\ pending' = [pending EXCEPT ![t] = NoOutcome]
  /\ result' = [result EXCEPT ![t] = NoOutcome]
  /\ UNCHANGED <<request_counter, response_queue, wire, request_id, lockVars>>
  /\ UNCHANGED unlockedVars

\* threading.Lock.__enter__ at scene.py:212, 237, 242, 251: granted only while nobody
\* holds the lock
LockAcquire(t) ==
  /\ pc[t] \in Entering
  /\ response_lock = Free
  /\ response_lock' = t
  /\ pc' = [pc EXCEPT ![t] = Entered(pc[t])]
  /\ UNCHANGED <<request_counter, response_queue, wire, request_id, wait_for_response,
                 pending, result, inbound>>
  /\ UNCHANGED unlockedVars

\* Mutant: time.sleep is inside the with block of the wait loop.
HeldAtSleep(t) == t

\* scene.py:242-247: the lock as a caller reaches time.sleep(0.01), the with block of
\* the pass having ended
AtSleep(t) == Free

\* scene.py:212-214: the counter and the id, then the end of the with block
LockedCounter(t) ==
  /\ pc[t] = "counter"
  /\ response_lock = t
  /\ request_counter' = NextId(request_counter)
  /\ request_id' = [request_id EXCEPT ![t] = request_counter']
  /\ response_lock' = Free
  /\ pc' = [pc EXCEPT ![t] = "send"]
  /\ UNCHANGED <<response_queue, wire, wait_for_response, pending, result, inbound>>
  /\ UNCHANGED unlockedVars

\* scene.py:241, 249: the test of the deadline, on a clock the caller does not control:
\* the position after it and what the call has to hand back
AfterDeadlineTest(t, expired) ==
  /\ pc' = [pc EXCEPT ![t] = IF expired THEN "lock_pop" ELSE "lock_check"]
  /\ pending' = [pending EXCEPT ![t] = IF expired THEN Raised("TimeoutError") ELSE @]

\* scene.py:216-228: the request is handed to the transport, outside every with block
UnlockedSend(t) ==
  /\ pc[t] = "send"
  /\ wire' = Append(wire, [id |-> request_id[t], method |-> "send_cmd"])
  /\ IF wait_for_response[t]
       THEN /\ pc' = [pc EXCEPT ![t] = "lock_register"]
            /\ UNCHANGED result
       ELSE /\ pc' = [pc EXCEPT ![t] = "idle"]
            /\ result' = [result EXCEPT ![t] = ReturnedSelf]
  /\ UNCHANGED <<request_counter, response_queue, request_id, wait_for_response, pending,
                 lockVars>>
  /\ UNCHANGED unlockedVars

\* scene.py:237-241: the slot, the end of the with block, the first test of the deadline
LockedRegister(t) ==
  /\ pc[t] = "register"
  /\ response_lock = t
  /\ response_queue' = [i \in DOMAIN response_queue \cup {request_id[t]} |->
                          IF i = request_id[t] THEN <<>> ELSE response_queue[i]]
  /\ response_lock' = Free
  /\ \E expired \in BOOLEAN : AfterDeadlineTest(t, expired)
  /\ UNCHANGED <<request_counter, wire, request_id, wait_for_response, result, inbound>>
  /\ UNCHANGED unlockedVars

\* scene.py:242-245: one test of the deque under the lock; return leaves the with block
LockedCheck(t) ==
  /\ pc[t] = "check"
  /\ response_lock = t
  /\ IF QueueOf(t) # <<>>
       THEN /\ pending' = [pending EXCEPT ![t] = Returned(Head(QueueOf(t)))]
            /\ response_queue' = [response_queue EXCEPT ![request_id[t]] = Tail(@)]
            /\ pc' = [pc EXCEPT ![t] = "lock_pop"]
            /\ response_lock' = Free
       ELSE /\ pc' = [pc EXCEPT ![t] = "sleep"]
            /\ response_lock' = AtSleep(t)
            /\ UNCHANGED <<pending, response_queue>>
  /\ UNCHANGED <<request_counter, wire, request_id, wait_for_response, result, inbound>>
  /\ UNCHANGED unlockedVars

\* scene.py:247, 241: time.sleep(0.01) ends and the deadline is tested again
Sleep(t) ==
  /\ pc[t] = "sleep"
  /\ \E expired \in BOOLEAN : AfterDeadlineTest(t, expired)
  /\ UNCHANGED <<request_counter, response_queue, wire, request_id, wait_for_response,
                 result, lockVars>>
  /\ UNCHANGED unlockedVars

\* scene.py:250-252: finally: the slot is removed under the lock and the call ends
LockedPop(t) ==
  /\ pc[t] = "pop"
  /\ response_lock = t
  /\ response_queue' = PopSlot(response_queue, request_id[t])
  /\ response_lock' = Free
  /\ pc' = [pc EXCEPT ![t] = "idle"]
  /\ result' = [result EXCEPT ![t] = pending[t]]
  /\ UNCHANGED <<request_counter, wire, request_id, wait_for_response, pending, inbound>>
  /\ UNCHANGED unlockedVars

\* scene.py:254-270: the handler is given a mapping; without an id it returns, with one
\* it reaches its with block
InboundArrive(c) ==
  /\ inbound.pc = "idle"
  /\ Room(c)
  /\ inbound' = IF "id" \in DOMAIN c THEN [pc |-> "lock", content |-> c] ELSE NoInbound
  /\ UNCHANGED <<request_counter, response_queue, wire, pc, request_id, wait_for_response,
                 pending, result, response_lock>>
  /\ UNCHANGED unlockedVars

\* threading.Lock.__enter__ at scene.py:272
InboundAcquire ==
  /\ inbound.pc = "lock"
  /\ response_lock = Free
  /\ response_lock' = "handler"
  /\ inbound' = [inbound EXCEPT !.pc = "append"]
  /\ UNCHANGED <<request_counter, response_queue, wire, pc, request_id, wait_for_response,
                 pending, result>>
  /\ UNCHANGED unlockedVars

\* scene.py:272-276: the append or the debug line, then the end of the with block
InboundAppend ==
  /\ inbound.pc = "append"
  /\ response_lock = "handler"
  /\ response_queue' = Delivered(response_queue, inbound.content)
  /\ response_lock' = Free
  /\ inbound' = NoInbound
  /\ UNCHANGED <<request_counter, wire, pc, request_id, wait_for_response, pending, result>>
  /\ UNCHANGED unlockedVars

NextLock ==
  \/ \E t \in Threads, w \in BOOLEAN : LockCall(t, w)
  \/ \E t \in Threads : LockAcquire(t)
  \/ \E t \in Threads : LockedCounter(t)
  \/ \E t \in Threads : UnlockedSend(t)
  \/ \E t \in Threads : LockedRegister(t)
  \/ \E t \in Threads : LockedCheck(t)
  \/ \E t \in Threads : Sleep(t)
  \/ \E t \in Threads : LockedPop(t)
  \/ \E i \in 1..MaxRequests : InboundArrive(OkReply(i, JObj([ok |-> TRUE])))
  \/ InboundArrive(NoIdContent)
  \/ InboundAcquire
  \/ InboundAppend

\* A thread inside a with block runs on to the block's end, and a released lock is in
\* time granted to the handler that waits for it; nothing is asked of how soon a caller
\* is granted the lock, hands its request to the transport, or wakes and polls again.
LockFairness ==
  /\ \A t \in Threads : WF_vars(LockedCounter(t))
  /\ \A t \in Threads : WF_vars(LockedRegister(t))
  /\ \A t \in Threads : WF_vars(LockedCheck(t))
  /\ \A t \in Threads : WF_vars(LockedPop(t))
  /\ WF_vars(InboundAppend)
  /\ SF_vars(InboundAcquire)

LockSpec == Init /\ [][NextLock]_vars /\ LockFairness

\* ------------------------------------------------- encoding of a request
\* Python values that params may hold: int, float (its digits before and after the
\* point), str, None, list, dict (keys in insertion order), numpy.ndarray (by what
\* tolist() gives), numpy.integer, numpy.floating, and a value json cannot encode (a set).
PInt(n) == [t |-> "int", n |-> n]

PFloat(w, f) == [t |-> "float", whole |-> w, frac |-> f]

PStr(str) == [t |-> "str", s |-> str]

PNone == [t |-> "None"]

PList(items) == [t |-> "list", items |-> items]

PDict(keys, vals) == [t |-> "dict", keys |-> keys, vals |-> vals]

NdArray(items) == [t |-> "ndarray", items |-> items]

NpInteger(n) == [t |-> "np.integer", n |-> n]

NpFloating(w, f) == [t |-> "np.floating", whole |-> w, frac |-> f]

PSet == [t |-> "set"]

\* JSON text, as its sequence of tokens: a punctuation mark, a digit, a string literal.
Tok(k, v) == [k |-> k, v |-> v]

Mark(v) == Tok("p", v)

DigitChars == <<"0", "1", "2", "3", "4", "5", "6", "7", "8", "9">>

DigitTok(d) == Tok("d", DigitChars[d + 1])

\* The digit a digit token stands for.
DigitOf(tok) == (CHOOSE i \in 1..10 : DigitChars[i] = tok.v) - 1

\* Mutant: only the last digit of a number is written.
LastDigit(n) == <<DigitTok(n % 10)>>

RECURSIVE Digits(_)
\* int.__repr__ of a natural number (json's encoder writes an int by it)
Digits(n) == IF n < 10 THEN <<DigitTok(n)>> ELSE Digits(n \div 10) \o <<DigitTok(n % 10)>>

IntText(n) == IF n < 0 THEN <<Mark("-")>> \o Digits(0 - n) ELSE Digits(n)

FloatText(w, f) == IntText(w) \o <<Mark(".")>> \o [i \in DOMAIN f |-> DigitTok(f[i])]

RECURSIVE dumps(_)
RECURSIVE dumps_items(_, _)
RECURSIVE dumps_members(_, _, _)
\* The elements of a list from the i-th on, with the commas between them.
dumps_items(items, i) ==
  IF i > Len(items) THEN Value(<<>>)
  ELSE LET head == dumps(items[i])
           rest == dumps_items(items, i + 1)
       IN  IF head.exc # "" THEN head
           ELSE IF rest.exc # "" THEN rest
           ELSE Value((IF i > 1 THEN <<Mark(",")>> ELSE <<>>) \o head.v \o rest.v)

\* The members of a dict from the i-th on, in insertion order.
dumps_members(keys, vals, i) ==
  IF i > Len(keys) THEN Value(<<>>)
  ELSE LET head == dumps(vals[i])
           rest == dumps_members(keys, vals, i + 1)
       IN  IF head.exc # "" THEN head
           ELSE IF rest.exc # "" THEN rest
           ELSE Value((IF i > 1 THEN <<Mark(",")>> ELSE <<>>)
                        \o <<Tok("s", keys[i]), Mark(":")>> \o head.v \o rest.v)

\* utils.py:19-29, scene.py:224: json.dumps(o, cls=NumpyEncoder): the text, or TypeError
\* from JSONEncoder.default for a value that is none of the three numpy kinds
dumps(o) ==
  CASE o.t = "int" -> Value(IntText(o.n))
    [] o.t = "float" -> Value(FloatText(o.whole, o.frac))
    [] o.t = "str" -> Value(<<Tok("s", o.s)>>)
    [] o.t = "None" -> Value(<<Mark("null")>>)
    [] o.t = "list" ->
         LET inner == dumps_items(o.items, 1)
         IN  IF inner.exc # "" THEN inner ELSE Value(<<Mark("[")>> \o inner.v \o <<Mark("]")>>)
    [] o.t = "dict" ->
         LET inner == dumps_members(o.keys, o.vals, 1)
         IN  IF inner.exc # "" THEN inner ELSE Value(<<Mark("{")>> \o inner.v \o <<Mark("}")>>)
    [] o.t = "ndarray" -> dumps(PList(o.items))
    [] o.t = "np.integer" -> dumps(PInt(o.n))
    [] o.t = "np.floating" -> dumps(PFloat(o.whole, o.frac))
    [] OTHER -> Throws("TypeError")

\* scene.py:216-221, types.py:4-9: asdict(JsonRPCRequest(...)), in the order of the fields
asdict(id, method, params) ==
  PDict(<<"jsonrpc", "id", "method", "params">>,
        <<PStr("2.0"), PInt(id), PStr(method), params>>)

RECURSIVE DigitsValue(_)
\* The number a sequence of digits writes.
DigitsValue(digits) ==
  IF digits = <<>> THEN 0
  ELSE DigitsValue(SubSeq(digits, 1, Len(digits) - 1)) * 10 + digits[Len(digits)]

RECURSIVE parse_digits(_, _, _)
\* The digits that text holds from position i on, and the position after them.
parse_digits(text, i, acc) ==
  IF i <= Len(text) /\ text[i].k = "d"
    THEN parse_digits(text, i + 1, Append(acc, DigitOf(text[i])))
    ELSE [v |-> acc, next |-> i]

\* A JSON number: an int, or a float when a point follows the digits.
parse_number(text, i) ==
  LET negative == text[i] = Mark("-")
      whole == parse_digits(text, IF negative THEN i + 1 ELSE i, <<>>)
      n == IF negative THEN 0 - DigitsValue(whole.v) ELSE DigitsValue(whole.v)
  IN  IF whole.next <= Len(text) /\ text[whole.next] = Mark(".")
        THEN LET frac == parse_digits(text, whole.next + 1, <<>>)
             IN  [v |-> PFloat(n, frac.v), next |-> frac.next]
        ELSE [v |-> PInt(n), next |-> whole.next]

RECURSIVE parse_value(_, _)
RECURSIVE parse_items(_, _, _)
RECURSIVE parse_members(_, _, _, _)
\* The elements of an array whose next element starts at position i.
parse_items(text, i, acc) ==
  LET item == parse_value(text, i)
  IN  IF text[item.next] = Mark(",")
        THEN parse_items(text, item.next + 1, Append(acc, item.v))
        ELSE [v |-> PList(Append(acc, item.v)), next |-> item.next + 1]

\* The members of an object whose next key is at position i.
parse_members(text, i, keys, vals) ==
  LET val == parse_value(text, i + 2)
  IN  IF text[val.next] = Mark(",")
        THEN parse_members(text, val.next + 1, Append(keys, text[i].v), Append(vals, val.v))
        ELSE [v |-> PDict(Append(keys, text[i].v), Append(vals, val.v)), next |-> val.next + 1]

\* The value that text written by json.dumps holds from position i on, as json.loads
\* (scene.py:258-260) yields it, and the position after it.
parse_value(text, i) ==
  CASE text[i].k = "s" -> [v |-> PStr(text[i].v), next |-> i + 1]
    [] text[i] = Mark("null") -> [v |-> PNone, next |-> i + 1]
    [] text[i] = Mark("[") ->
         IF text[i + 1] = Mark("]") THEN [v |-> PList(<<>>), next |-> i + 2]
         ELSE parse_items(text, i + 1, <<>>)
    [] text[i] = Mark("{") ->
         IF text[i + 1] = Mark("}") THEN [v |-> PDict(<<>>, <<>>), next |-> i + 2]
         ELSE parse_members(text, i + 1, <<>>, <<>>)
    [] OTHER -> parse_number(text, i)

loads(text) == parse_value(text, 1).v

\* dict.__getitem__ on a parsed mapping
Member(d, key) == d.vals[CHOOSE i \in 1..Len(d.keys) : d.keys[i] = key]

\* ------------------------------------------- the encoder as a pure function
\* The ids a scene's counter gives out, far enough for ids of more than one digit.
MaxId == 12

EncodableParams ==
  { PDict(<<>>, <<>>),
    PDict(<<"theme">>, <<PStr("dark")>>),
    PDict(<<"name", "clear">>, <<PNone, PInt(1)>>),
    PDict(<<"ids">>, <<PList(<<PInt(0), PInt(-12), PInt(305)>>)>>),
    PDict(<<"x">>, <<NdArray(<<PFloat(1, <<5>>), PFloat(-2, <<0, 5>>)>>)>>),
    PDict(<<"n", "r">>, <<NpInteger(40), NpFloating(0, <<2, 5>>)>>),
    PDict(<<"options">>, <<PDict(<<"atoms">>, <<PDict(<<"radius">>, <<PNone>>)>>)>>),
    PDict(<<"atoms">>, <<PStr("__buffer.0")>>) }

UnencodableParams ==
  { PDict(<<"ids">>, <<PSet>>),
    PDict(<<"a", "b">>, <<PInt(1), PList(<<PSet>>)>>) }

EncodeArgs ==
  {[kind |-> "request", id |-> i, method |-> m, params |-> p] :
     i \in 1..MaxId, m \in {"clear", "draw_frame"},
     p \in EncodableParams \cup UnencodableParams}

EncodeInit == Constructed /\ call \in {[NoCall EXCEPT !.arg = a] : a \in EncodeArgs}

\* The texts of the encodings made so far.
Encodings == IF call.op = "none" THEN <<>> ELSE call.result.value.texts

\* scene.py:216-224: the argument of self.send is computed for the request, once more
Encode ==
  LET text == dumps(asdict(call.arg.id, call.arg.method, call.arg.params))
  IN  /\ Len(Encodings) < 2
      /\ call.kind # "raise"
      /\ IF text.exc = ""
           THEN call' = [call EXCEPT !.op = "encode", !.kind = "return",
                           !.result = [kind |-> "return", exc |-> "",
                                       value |-> [texts |-> Append(Encodings, text.v)],
                                       msg |-> {}]]
           ELSE call' = [call EXCEPT !.op = "encode", !.kind = "raise", !.exc = text.exc,
                           !.result = [kind |-> "raise", exc |-> text.exc,
                                       value |-> [texts |-> <<>>], msg |-> {}]]
      /\ UNCHANGED <<request_counter, wire>>
      /\ UNCHANGED undrawnVars

EncodeSpec == EncodeInit /\ [][Encode]_vars

\* --------------------------------------------- requests and their buffers
\* The buffers argument of send_cmd: None, or a list of binary buffers.
NoBuffers == [given |-> FALSE, items |-> <<>>]

Buffers(items) == [given |-> TRUE, items |-> items]

\* What send_cmd itself is called with.
SendArgs ==
  {[kind |-> "send_cmd", method |-> "draw_frame", params |-> p, buffers |-> b] :
     p \in {PDict(<<>>, <<>>),
            PDict(<<"atoms">>, <<PStr("__buffer.0")>>),
            PDict(<<"atoms", "bonds">>, <<PStr("__buffer.0"), PStr("__buffer.1")>>),
            PDict(<<"x">>, <<NdArray(<<PInt(1), PInt(2)>>)>>),
            PDict(<<"ids">>, <<PSet>>)},
     b \in {NoBuffers, Buffers(<<>>), Buffers(<<"b0">>), Buffers(<<"b0", "b1">>),
            Buffers(<<"b1", "b0">>)}}

\* Mutant: the text is computed before the counter is advanced, and the counter is left
\* alone when json.dumps raises.
SendCmdFireEncodingFirst(o, arg, method, params, buffers) ==
  LET request_id_ == NextId(request_counter)
      text == dumps(asdict(request_id_, method, params))
  IN  /\ request_counter < MaxRequests
      /\ IF text.exc = ""
           THEN /\ request_counter' = request_id_
                /\ wire' = Append(wire, [text |-> text.v, buffers |-> buffers])
                /\ call' = [NoCall EXCEPT !.op = o, !.arg = arg, !.kind = "self"]
           ELSE /\ UNCHANGED <<request_counter, wire>>
                /\ call' = [NoCall EXCEPT !.op = o, !.arg = arg, !.kind = "raise",
                              !.exc = text.exc]

\* scene.py:208-228, fire-style, called by operation o on its argument arg: the id,
\* the text, and self.send(text, buffers=buffers) unless json.dumps raised
SendCmdFire(o, arg, method, params, buffers) ==
  LET request_id_ == NextId(request_counter)
      text == dumps(asdict(request_id_, method, params))
  IN  /\ request_counter < MaxRequests
      /\ request_counter' = request_id_
      /\ IF text.exc = ""
           THEN /\ wire' = Append(wire, [text |-> text.v, buffers |-> buffers])
                /\ call' = [NoCall EXCEPT !.op = o, !.arg = arg, !.kind = "self"]
           ELSE /\ UNCHANGED wire
                /\ call' = [NoCall EXCEPT !.op = o, !.arg = arg, !.kind = "raise",
                              !.exc = text.exc]

\* scene.py:186-228: send_cmd called directly
SendCmdRequest(a) ==
  /\ SendCmdFire("send_cmd", a, a.method, a.params,
                 IF a.buffers.given THEN a.buffers.items ELSE <<>>)
  /\ UNCHANGED undrawnVars

\* drawing.py:320-323
Clear ==
  /\ SendCmdFire("clear", Plain, "clear", PDict(<<>>, <<>>), <<>>)
  /\ UNCHANGED undrawnVars

\* drawing.py:340-343
SetTheme(theme) ==
  /\ SendCmdFire("set_theme", [kind |-> "theme", theme |-> theme], "set_theme",
                 PDict(<<"theme">>, <<theme>>), <<>>)
  /\ UNCHANGED undrawnVars

\* The order in which the mappings of a frame hold their keys.
KeyOrder == <<"blocks", "metadata", "atoms", "bonds", "x", "y", "z", "i", "j", "step">>

Keys(m) == SelectSeq(KeyOrder, LAMBDA k : k \in DOMAIN m)

RECURSIVE Py(_)
\* The Python value behind a frame's mapping or numeric column.
Py(v) ==
  IF "shape" \in DOMAIN v
    THEN NdArray([i \in DOMAIN v.data |-> PInt(v.data[i])])
    ELSE PDict(Keys(v.members), [i \in DOMAIN Keys(v.members) |-> Py(v.members[Keys(v.members)[i]])])

\* drawing.py:130-137: params, as draw_frame is called with the default radii
FrameParams(v) ==
  PDict(<<"frameData", "options">>,
        <<Py(v.frameData),
          PDict(<<"atoms", "bonds", "style">>,
                <<PDict(<<"radius">>, <<PNone>>), PDict(<<"radius">>, <<PNone>>),
                  PStr(v.options.style)>>)>>)

\* Frames and other values that draw_frame is called with here.
FrameRequests ==
  {Other} \cup
  {[kind |-> "frame", to_dict |-> d, include_metadata |-> m, style |-> "spacefill"] :
     d \in {Raises,
            JObj([blocks |-> JObj([bonds |-> BondsBlock])]),
            JObj([blocks |-> JObj([atoms |-> JObj([k \in CoordinateKeys |-> AtomsField(k, "Nx3", 1)]),
                                   bonds |-> BondsBlock]),
                  metadata |-> Metadata])},
     m \in BOOLEAN}

\* drawing.py:71-140, down to the transport
DrawFrameRequest(arg) ==
  LET r == draw_frame(arg)
  IN  /\ IF r.exc # ""
           THEN /\ call' = [NoCall EXCEPT !.op = "draw_frame", !.arg = arg,
                              !.kind = "raise", !.exc = r.exc]
                /\ UNCHANGED <<request_counter, wire>>
           ELSE SendCmdFire("draw_frame", arg, "draw_frame", FrameParams(r.v), <<>>)
      /\ UNCHANGED undrawnVars

\* A pyarrow IPC stream of the named columns of a table (__init__.py:69-74,83-86).
Arrow(table, columns) == [table |-> table, columns |-> columns]

\* Frames for the buffer-based draw_frame: with an atoms table, with or without bonds.
TableFrames == {[kind |-> "tables", bonds |-> b] : b \in BOOLEAN}

\* __init__.py:67-87: the buffers draw_frame builds for a frame
frame_buffers(frame) ==
  <<Arrow("atoms", <<"x", "y", "z">>)>>
    \o (IF frame.bonds THEN <<Arrow("bonds", <<"bond_i", "bond_j">>)>> ELSE <<>>)

\* __init__.py:39-55, types.py:4-9: dict(jsonrpc) of a dataclass instance, which is
\* neither a mapping nor an iterable of pairs, raises TypeError before self.send
init_send_cmd(method, params, buffers) == Throws("TypeError")

\* __init__.py:62-91: the buffer-based draw_frame, down to the transport
InitDrawFrame(frame) ==
  LET sent == init_send_cmd("draw_frame", PDict(<<>>, <<>>), frame_buffers(frame))
  IN  /\ IF sent.exc = ""
           THEN /\ wire' = Append(wire, [text |-> sent.v, buffers |-> frame_buffers(frame)])
                /\ call' = [NoCall EXCEPT !.op = "init_draw_frame", !.arg = frame,
                              !.kind = "self"]
           ELSE /\ UNCHANGED wire
                /\ call' = [NoCall EXCEPT !.op = "init_draw_frame", !.arg = frame,
                              !.kind = "raise", !.exc = sent.exc]
      /\ request_counter < MaxRequests
      /\ UNCHANGED request_counter
      /\ UNCHANGED undrawnVars

\* Operations called one after the other on one scene, each down to the transport.
NextRequest ==
  \/ \E a \in SendArgs : SendCmdRequest(a)
  \/ Clear
  \/ \E theme \in {PStr("dark"), PSet} : SetTheme(theme)
  \/ \E arg \in FrameRequests : DrawFrameRequest(arg)
  \/ \E frame \in TableFrames : InitDrawFrame(frame)

RequestSpec == Init /\ [][NextRequest]_vars

\* --------------------------------------------------------- wait_for_ready
\* What wait_for_ready and the trait's synchronisation leave alone.
unreadyVars == <<request_counter, response_queue, wire, request_id, wait_for_response,
                 pending, ids, timedOut, firstHandled, handlerVars, registryVars, drawVars,
                 lockVars>>

\* Mutant: the wait gives up as soon as the timeout has elapsed, not after it.
deadline_reached(e, to) == e >= to

\* widget.py:944: time.time() - start_time > timeout
deadline_passed(e, to) == e > to

\* The clock may run one unit past a timeout.
Later(e, to) == Min(e + 1, to + 1)

\* widget.py:928-940: wait_for_ready is called and takes start_time
WaitForReadyCall(t, to) ==
  /\ pc[t] = "idle"
  /\ pc' = [pc EXCEPT ![t] = "ready_test"]
  /\ op' = [op EXCEPT ![t] = "wait_for_ready"]
  /\ timeout' = [timeout EXCEPT ![t] = to]
  /\ elapsed' = [elapsed EXCEPT ![t] = 0]
  /\ result' = [result EXCEPT ![t] = NoOutcome]
  /\ UNCHANGED ready
  /\ UNCHANGED unreadyVars

\* widget.py:942-945,950: one test of the trait, then of the deadline
WaitForReadyTest(t) ==
  /\ pc[t] = "ready_test"
  /\ IF ready
       THEN /\ pc' = [pc EXCEPT ![t] = "idle"]
            /\ result' = [result EXCEPT ![t] = Returned(JBool(TRUE))]
       ELSE IF deadline_passed(elapsed[t], timeout[t])
         THEN /\ pc' = [pc EXCEPT ![t] = "idle"]
              /\ result' = [result EXCEPT ![t] = Returned(JBool(FALSE))]
         ELSE /\ pc' = [pc EXCEPT ![t] = "ready_sleep"]
              /\ UNCHANGED result
  /\ UNCHANGED <<op, timeout, elapsed, ready>>
  /\ UNCHANGED unreadyVars

\* widget.py:948: time.sleep(0.1) ends, later than it began
WaitForReadySleep(t) ==
  /\ pc[t] = "ready_sleep"
  /\ pc' = [pc EXCEPT ![t] = "ready_test"]
  /\ elapsed' = [elapsed EXCEPT ![t] = Later(@, timeout[t])]
  /\ UNCHANGED <<op, timeout, result, ready>>
  /\ UNCHANGED unreadyVars

\* time.time() advances while a caller is in wait_for_ready (widget.py:940,944)
ReadyTick(t) ==
  /\ pc[t] \in {"ready_test", "ready_sleep"}
  /\ elapsed[t] <= timeout[t]
  /\ elapsed' = [elapsed EXCEPT ![t] = Later(@, timeout[t])]
  /\ UNCHANGED <<pc, op, timeout, result, ready>>
  /\ UNCHANGED unreadyVars

\* widget.py:72: the trait is synchronised with the peer, which sets it
SetReady(b) ==
  /\ ready # b
  /\ ready' = b
  /\ UNCHANGED <<pc, op, timeout, elapsed, result>>
  /\ UNCHANGED unreadyVars

NextReady ==
  \/ \E t \in Threads, to \in 0..MaxTimeout : WaitForReadyCall(t, to)
  \/ \E t \in Threads : WaitForReadyTest(t)
  \/ \E t \in Threads : WaitForReadySleep(t)
  \/ \E t \in Threads : ReadyTick(t)
  \/ \E b \in BOOLEAN : SetReady(b)

\* A caller in wait_for_ready goes on running; nothing is asked of the peer.
ReadyFairness ==
  /\ \A t \in Threads : WF_vars(WaitForReadyTest(t))
  /\ \A t \in Threads : WF_vars(WaitForReadySleep(t))

ReadySpec == Init /\ [][NextReady]_vars /\ ReadyFairness

\* ----------------------------------------------------------------- claims
InBlockingCall(t) == wait_for_response[t] /\ pc[t] # "idle"

Finished(t) == IF pc[t] = "idle" THEN ids[t] ELSE SubSeq(ids[t], 1, Len(ids[t]) - 1)

AllIds == UNION {{ids[t][k] : k \in DOMAIN ids[t]} : t \in Threads}

\* C1: a response handled for a blocking call's id after send() and before the call's
\* deadline (timeout > 0) is exactly what the call returns; the call does not time out.
C1_ResponseBeforeDeadlineIsReturned ==
  \A t \in Threads :
    (/\ pc[t] = "finally"
     /\ wait_for_response[t]
     /\ timeout[t] > 0
     /\ firstHandled[t].seen
     /\ pending[t] # Raised("KeyboardInterrupt"))
      => pending[t] = Returned(firstHandled[t].content)

\* C2: every blocking request that is on the wire and whose call has not ended has its
\* entry in _response_queue.
C2_SlotPerOutstandingRequest ==
  \A t \in Threads : OnWire(t) => request_id[t] \in DOMAIN response_queue

\* C3: the ids obtained by the calls are pairwise distinct, are exactly
\* 1..request_counter, and increase strictly along each caller's sequence of calls.
C3_IdsDistinctIncreasing ==
  /\ \A t \in Threads : \A k \in 1..(Len(ids[t]) - 1) : ids[t][k] < ids[t][k + 1]
  /\ \A t, u \in Threads : \A j \in DOMAIN ids[t], k \in DOMAIN ids[u] :
        (t # u \/ j # k) => ids[t][j] # ids[u][k]
  /\ AllIds = 1..request_counter
  /\ \A t \in Threads : pc[t] # "idle" => request_id[t] = ids[t][Len(ids[t])]

C3_Witness ==
  /\ pc = [t \in Threads |-> "send"]
  /\ request_counter = Cardinality(Threads)

\* C4: a call only ever returns a response whose id is the call's own request id.
C4_ReturnedResponseHasOwnId ==
  \A t \in Threads :
    /\ pending[t].kind = "return" => pending[t].value.id = request_id[t]
    /\ result[t].kind = "return" => result[t].value.id = request_id[t]

\* Two calls pending at once and both answered; the later-issued one returned first.
C4_Witness ==
  \E t, u \in Threads :
    /\ request_id[t] < request_id[u]
    /\ pc[t] = "loop" /\ QueueOf(t) # <<>>
    /\ pc[u] = "idle" /\ result[u].kind = "return"
    /\ wire = <<[id |-> request_id[t], method |-> op[t]], [id |-> request_id[u], method |-> op[u]]>>

C6_NoSlotAfterCall ==
  /\ \A t \in Threads : \A k \in DOMAIN Finished(t) : Finished(t)[k] \notin DOMAIN response_queue
  /\ (\A t \in Threads : ~InBlockingCall(t)) => DOMAIN response_queue = {}

\* One call has returned a response, another was interrupted, and none is in progress.
C6_Witness ==
  /\ \A t \in Threads : pc[t] = "idle"
  /\ \E t \in Threads : result[t].kind = "return"
  /\ \E t \in Threads : result[t] = Raised("KeyboardInterrupt")

\* C7: after a call has raised TimeoutError, the next send_cmd obtains the next id,
\* larger than every timed-out id; a later blocking call registers a fresh empty slot
\* of its own and returns only a response with its own id; no slot of a timed-out
\* request is in the table.
C7_UsableAfterTimeout ==
  [][timedOut # {} =>
      /\ \A t \in Threads : (pc[t] = "idle" /\ pc'[t] = "send") =>
            /\ request_counter' = request_counter + 1
            /\ request_id'[t] = request_counter'
            /\ \A i \in timedOut : request_id'[t] > i
      /\ \A t \in Threads : (pc[t] = "register" /\ pc'[t] = "loop") =>
            /\ request_id[t] \notin timedOut
            /\ request_id[t] \notin DOMAIN response_queue
            /\ request_id[t] \in DOMAIN response_queue'
            /\ response_queue'[request_id[t]] = <<>>
      /\ \A t \in Threads : (pc[t] = "loop" /\ pc'[t] = "finally" /\ pending'[t].kind = "return") =>
            pending'[t].value.id = request_id[t]
      /\ timedOut \cap DOMAIN response_queue' = {}]_vars

\* One caller's first call timed out and its next call returned the response for its id.
C7_Witness ==
  \E t \in Threads :
    /\ Len(ids[t]) >= 2
    /\ ids[t][1] \in timedOut
    /\ pc[t] = "idle"
    /\ result[t].kind = "return"
    /\ result[t].value.id = ids[t][2]

\* C8: every blocking call in progress ends: it returns a response or raises
\* TimeoutError to its caller, whether or not the handler is ever invoked for its id.
C8_BlockingCallTerminates ==
  \A t \in Threads :
    InBlockingCall(t) ~> (pc[t] = "idle" /\ (result[t].kind = "return" \/ result[t] = Raised("TimeoutError")))

\* A call with a positive timeout times out while another call is still waiting.
C8_Witness ==
  \E t, u \in Threads :
    /\ t # u
    /\ pc[t] = "finally" /\ pending[t] = Raised("TimeoutError") /\ timeout[t] > 0
    /\ pc[u] = "loop"

\* The reply carries an `error` payload and no `result`.
ErrorOnly(response) == "error" \in DOMAIN response /\ "result" \notin DOMAIN response

\* C9: when the reply to get_selected, dump_frame or snapshot carries an error and no
\* result, the operation raises an error that carries the peer's message.
C9_PeerErrorIsRaised ==
  \A t \in Threads :
    (/\ pc[t] = "idle"
     /\ op[t] \in {"get_selected", "dump_frame", "snapshot"}
     /\ pending[t].kind = "return"
     /\ ErrorOnly(pending[t].value))
      => (result[t].kind = "raise" /\ pending[t].value.error.message \in result[t].msg)

\* C10: when the request of a call-style operation times out, the operation raises
\* TimeoutError to its caller.
C10_TimeoutIsRaised ==
  \A t \in Threads :
    (/\ pc[t] = "idle"
     /\ op[t] \in CallOps
     /\ pending[t] = Raised("TimeoutError"))
      => (result[t].kind = "raise" /\ result[t].exc = "TimeoutError")

\* C11: the inbound handler raises nothing, whatever it is given; given a payload that
\* carries no response (bytes that are not UTF-8, text that is not JSON, JSON that is
\* not a mapping, a mapping without `id`, a payload of an unexpected type) it leaves the
\* slot table, the call in progress and the request counter unchanged.
C11_HandlerNeverRaises ==
  [][\A content \in Payloads :
        HandleCustomMsg(content) =>
          /\ handled'.raised = ""
          /\ content \in BadPayloads =>
               UNCHANGED <<response_queue, request_counter, wire, pc, request_id,
                           wait_for_response, timeout, elapsed, pending, result, ids>>]_vars

\* JSON text that is not a mapping was handled while a call was waiting on its slot.
C11_Witness ==
  /\ handled = [content |-> Str(Text(JArray)), log |-> "warning: error handling response",
                raised |-> ""]
  /\ pc[OpCaller] = "loop"
  /\ request_id[OpCaller] \in DOMAIN response_queue

\* C12: a response handled while no slot existed for its id is in no slot, and no call
\* holds or has returned it, whatever ids were issued afterwards.
C12_UnmatchedResponseDiscarded ==
  \A d \in dropped :
    /\ \A i \in DOMAIN response_queue : \A k \in DOMAIN response_queue[i] :
          response_queue[i][k] # d.response
    /\ \A t \in Threads :
          /\ pending[t] # Returned(d.response)
          /\ result[t] # Returned(d.response)

\* A response came for an id that had not been issued; the call that was later given
\* that id has returned another response.
C12_Witness ==
  \E d \in dropped :
    /\ d.response.id > d.counter
    /\ pc[OpCaller] = "idle"
    /\ result[OpCaller].kind = "return"
    /\ result[OpCaller].value.id = d.response.id

\* C13: a step of close() neither removes nor changes a registry entry that maps to a
\* scene other than the one being closed.
C13_CloseKeepsOtherScenes ==
  [][\A t \in Threads :
        (CloseDel(t) \/ CloseClear(t)) =>
          \A n \in DOMAIN scene_registry :
            scene_registry[n] # caller[t].scene =>
              (n \in DOMAIN scene_registry' /\ scene_registry'[n] = scene_registry[n])]_vars

\* The scenes that have been constructed and not closed.
Live == DOMAIN scenes \ closed

C15_LiveNamesUnique ==
  \A a, b \in Live : a # b => scenes[a].name # scenes[b].name

\* C15, amended: no two registered scenes have the same name: every key of the registry
\* maps to one scene, that scene's name is the key, and it is in the instance set.
C15_RegisteredNamesUnique ==
  /\ \A n \in DOMAIN scene_registry :
        /\ scene_registry[n] \in DOMAIN scenes
        /\ scenes[scene_registry[n]].name = n
        /\ scene_registry[n] \in instances
  /\ \A m, n \in DOMAIN scene_registry :
        scene_registry[m] # scene_registry[n] => scenes[scene_registry[m]].name # scenes[scene_registry[n]].name

\* Two live scenes have the same name; the registry maps the name to the later one.
C15_Witness ==
  \E a, b \in Live :
    /\ a < b
    /\ scenes[a].name = scenes[b].name
    /\ scenes[b].name \in DOMAIN scene_registry
    /\ scene_registry[scenes[b].name] = b

\* C16: constructing a scene under a registered name makes that name map to the new
\* scene and changes nothing else: the previous scene's counter, slots and sent
\* requests, the instance set's other members, the closed scenes and the other keys.
C16_SupersedeLeavesPrevious ==
  [][\A name \in {"n", ""}, session_id \in SessionIds :
        (/\ Construct(OpCaller, name, session_id)
         /\ scene_name(name, session_id) \in DOMAIN scene_registry) =>
          LET n == scene_name(name, session_id)
              previous == scene_registry[n]
          IN  /\ scene_registry'[n] = Len(scenes) + 1
              /\ DOMAIN scene_registry' = DOMAIN scene_registry
              /\ \A k \in DOMAIN scene_registry \ {n} : scene_registry'[k] = scene_registry[k]
              /\ \A self \in DOMAIN scenes : scenes'[self] = scenes[self]
              /\ previous \in instances'
              /\ closed' = closed]_vars

\* A scene with a request sent and a slot waiting has just been superseded.
C16_Witness ==
  LET c == caller[OpCaller]
  IN  /\ c.pc = "idle" /\ c.op = "construct" /\ c.name = "n"
      /\ scene_registry["n"] = c.value
      /\ \E previous \in Live \ {c.value} :
            /\ scenes[previous].name = "n"
            /\ scenes[previous].response_queue # {}
            /\ previous \in instances

\* C17: whatever the interleaving of constructions, closes and lookups, the only
\* exception a thread gets is get_scene's KeyError that lists the available names.
C17_NoInternalError ==
  \A t \in Threads :
    caller[t].kind = "raise" => (caller[t].op = "get_scene" /\ caller[t].listed)

\* The exceptions an operation raises for arguments it does not accept.
ValidationErrors == {"TypeError", "ValueError", "Exception"}

\* C18: a fire-style operation that has ended has either handed exactly one request,
\* with its method name, to the transport and returned the scene, or raised a local
\* error with nothing handed to the transport.
C18_FireSendsOnceOrNothing ==
  call.op # "none" =>
    \/ /\ call.kind = "self"
       /\ Len(wire) = 1
       /\ wire[1].id = request_counter
       /\ wire[1].method = MethodOf(call.op)
    \/ /\ call.kind = "raise"
       /\ call.exc \in ValidationErrors
       /\ wire = <<>>

\* draw_box was given a Box whose mapping lacks required fields: it raised, and the
\* transport was handed nothing.
C18_Witness ==
  /\ call.op = "draw_box"
  /\ call.arg.kind = "box"
  /\ IsDict(call.arg.to_dict)
  /\ call.kind = "raise"
  /\ wire = <<>>

\* drawing.py:39: the array has shape N x 3
IsNx3(a) == ndim(a) = 2 /\ a.shape[2] = 3

\* The conversion holds a mapping of blocks with an atoms entry.
HasAtoms(d) ==
  /\ d.t # "raises" /\ IsDict(d)
  /\ "blocks" \in DOMAIN d.members
  /\ IsDict(d.members.blocks)
  /\ "atoms" \in DOMAIN d.members.blocks.members

\* The frames that draw_frame is to reject: the conversion is not a mapping, blocks is
\* missing or not a mapping, atoms is missing, atoms has neither all of x, y, z nor xyz,
\* or xyz is not an N x 3 matrix.
Rejected(d) ==
  \/ ~HasAtoms(d)
  \/ LET a == d.members.blocks.members.atoms
     IN  \/ ~IsDict(a)
         \/ ~(CoordinateKeys \subseteq DOMAIN a.members) /\ "xyz" \notin DOMAIN a.members
         \/ "xyz" \in DOMAIN a.members /\ ~IsNx3(a.members.xyz)

\* C19: draw_frame raises and sends nothing exactly for the frames that are to be
\* rejected, and sends exactly one draw_frame request for every other frame.
C19_DrawFrameRejectsExactly ==
  (call.op = "draw_frame" /\ call.arg.kind = "frame") =>
    IF Rejected(call.arg.to_dict)
      THEN call.kind = "raise" /\ wire = <<>>
      ELSE call.kind = "self" /\ Len(wire) = 1 /\ wire[1].method = "draw_frame"

\* C20: when the atoms block holds an xyz of shape N x 3, the frameData sent has
\* atoms.x, atoms.y, atoms.z of length N and no xyz, every other atoms field as
\* supplied, and every other mapping-valued block as supplied.
C20_XyzBecomesColumns ==
  (/\ call.op = "draw_frame"
   /\ call.arg.kind = "frame"
   /\ HasAtoms(call.arg.to_dict)
   /\ IsDict(call.arg.to_dict.members.blocks.members.atoms)
   /\ "xyz" \in DOMAIN call.arg.to_dict.members.blocks.members.atoms.members
   /\ IsNx3(call.arg.to_dict.members.blocks.members.atoms.members.xyz)) =>
    /\ call.kind = "self"
    /\ LET blocks == call.arg.to_dict.members.blocks.members
           supplied == blocks.atoms.members
           sent == wire[1].params.frameData.members.blocks.members
       IN  /\ \A k \in CoordinateKeys :
                 /\ k \in DOMAIN sent.atoms.members
                 /\ Len(sent.atoms.members[k].data) = supplied.xyz.shape[1]
           /\ "xyz" \notin DOMAIN sent.atoms.members
           /\ \A k \in DOMAIN supplied \ (CoordinateKeys \cup {"xyz"}) :
                 k \in DOMAIN sent.atoms.members /\ sent.atoms.members[k] = supplied[k]
           /\ DOMAIN sent = {b \in DOMAIN blocks : IsDict(blocks[b])}
           /\ \A b \in DOMAIN sent \ {"atoms"} : sent[b] = blocks[b]

\* C21: every draw_frame request handed to the transport carries an atoms block whose
\* x, y and z have the same length; a frame whose x, y, z differ in length is rejected
\* and nothing is sent.
C21_CoordinatesEqualLength ==
  /\ call.op \in {"draw_frame", "draw_atoms"} =>
        \A k \in DOMAIN wire :
          LET a == wire[k].params.frameData.members.blocks.members.atoms.members
          IN  /\ Len(a.x.data) = Len(a.y.data)
              /\ Len(a.y.data) = Len(a.z.data)
  /\ (/\ call.op = "draw_frame"
      /\ call.arg.kind = "frame"
      /\ HasAtoms(call.arg.to_dict)
      /\ call.arg.to_dict.members.blocks.members.atoms = RaggedAtoms) =>
        (call.kind = "raise" /\ wire = <<>>)

\* C22: draw_frame and draw_atoms called with a style that is not one of the three
\* styles raise and hand nothing to the transport.
C22_UnknownStyleRejected ==
  (/\ call.op \in {"draw_frame", "widget_draw_frame", "draw_atoms"}
   /\ call.arg.kind \in {"frame", "atoms"}
   /\ call.arg.style \notin Styles) =>
    (call.kind = "raise" /\ wire = <<>>)

\* The mapping has matrix, pbc and origin, of 3 x 3, 3 and 3 entries.
WellShaped(d) ==
  /\ required_fields \subseteq DOMAIN d.members
  /\ Len(d.members.matrix.items) = 3
  /\ \A row \in DOMAIN d.members.matrix.items : Len(d.members.matrix.items[row].items) = 3
  /\ Len(d.members.pbc.items) = 3
  /\ Len(d.members.origin.items) = 3

\* C23: draw_box given a Box whose mapping lacks one of matrix, pbc, origin raises an
\* error naming every missing field; given a matrix that is not 3 x 3, or a pbc or an
\* origin that has not 3 entries, it raises; in both cases nothing is sent. Otherwise it
\* sends exactly one draw_box request that carries the mapping unchanged.
C23_DrawBoxRejectsExactly ==
  (/\ call.op \in {"draw_box", "widget_draw_box"}
   /\ call.arg.kind = "box"
   /\ call.arg.to_dict.t # "raises"
   /\ IsDict(call.arg.to_dict)) =>
    LET d == call.arg.to_dict
    IN  IF ~(required_fields \subseteq DOMAIN d.members)
          THEN /\ call.kind = "raise"
               /\ call.msg = required_fields \ DOMAIN d.members
               /\ wire = <<>>
          ELSE IF ~WellShaped(d)
            THEN call.kind = "raise" /\ wire = <<>>
            ELSE /\ call.kind = "self"
                 /\ Len(wire) = 1
                 /\ wire[1].method = "draw_box"
                 /\ wire[1].params.boxData = d

\* The atom has an xyz, or an x, a y and a z.
HasCoordinates(atom) ==
  "xyz" \in DOMAIN atom.fields \/ CoordinateKeys \subseteq DOMAIN atom.fields

\* The atom has an xyz of three elements or, without xyz, an x, a y and a z.
HasThreeCoordinates(atom) ==
  IF "xyz" \in DOMAIN atom.fields
    THEN Len(atom.fields.xyz.data) = 3
    ELSE CoordinateKeys \subseteq DOMAIN atom.fields

\* The atoms block that is to be built from the atoms.
ExpectedAtoms(atoms) ==
  [k \in {"x", "y", "z", "element", "type"} |->
     Vector([i \in DOMAIN atoms |->
       LET f == atoms[i].fields
       IN  CASE k = "x" -> IF "xyz" \in DOMAIN f THEN f.xyz.data[1] ELSE f.x
             [] k = "y" -> IF "xyz" \in DOMAIN f THEN f.xyz.data[2] ELSE f.y
             [] k = "z" -> IF "xyz" \in DOMAIN f THEN f.xyz.data[3] ELSE f.z
             [] k = "element" -> IF "element" \in DOMAIN f THEN f.element
                                 ELSE IF "symbol" \in DOMAIN f THEN f.symbol ELSE "C"
             [] OTHER -> IF "type" \in DOMAIN f THEN f.type ELSE 1])]

\* C24: draw_atoms given an empty list, or an atom without coordinates, raises and sends
\* nothing; given a non-empty list of atoms that each have a 3-element xyz or else x, y,
\* z, it sends an atoms block whose x, y, z, element and type have one entry per atom,
\* in input order, with element "C" and type 1 where the atom has none.
C24_DrawAtomsBuildsBlock ==
  (/\ call.op \in {"draw_atoms", "widget_draw_atoms"}
   /\ call.arg.kind = "atoms"
   /\ \A i \in DOMAIN call.arg.atoms : call.arg.atoms[i].kind = "atom") =>
    LET atoms == call.arg.atoms
    IN  /\ (atoms = <<>> \/ \E i \in DOMAIN atoms : ~HasCoordinates(atoms[i])) =>
              (call.kind = "raise" /\ wire = <<>>)
        /\ (atoms # <<>> /\ \A i \in DOMAIN atoms : HasThreeCoordinates(atoms[i])) =>
              /\ call.kind = "self"
              /\ Len(wire) = 1
              /\ LET sent == wire[1].params.frameData.members.blocks.members.atoms.members
                 IN  \A k \in DOMAIN ExpectedAtoms(atoms) :
                       k \in DOMAIN sent /\ sent[k] = ExpectedAtoms(atoms)[k]

\* The atoms block has x, y and z, and no xyz.
Normalized(d) ==
  /\ HasAtoms(d)
  /\ IsDict(d.members.blocks.members.atoms)
  /\ CoordinateKeys \subseteq DOMAIN d.members.blocks.members.atoms.members
  /\ "xyz" \notin DOMAIN d.members.blocks.members.atoms.members

\* C25: draw_trajectory raises and sends nothing when the trajectory is not iterable, is
\* empty, or holds an element that is no frame or that is to be rejected; otherwise it
\* sends exactly one draw_trajectory request that holds one normalized frame per
\* element, in the order of the elements.
C25_TrajectoryNormalized ==
  (call.op = "draw_trajectory" /\ call.arg.kind = "trajectory") =>
    LET frames == call.arg.frames
    IN  IF \/ ~call.arg.iterable
           \/ frames = <<>>
           \/ \E i \in DOMAIN frames : frames[i].kind # "frame" \/ Rejected(frames[i].to_dict)
          THEN call.kind = "raise" /\ wire = <<>>
          ELSE /\ call.kind = "self"
               /\ Len(wire) = 1
               /\ wire[1].method = "draw_trajectory"
               /\ Len(wire[1].params.frames) = Len(frames)
               /\ \A i \in DOMAIN frames :
                     LET sent == wire[1].params.frames[i]
                         given == frames[i].to_dict.members.blocks.members.atoms.members
                     IN  /\ Normalized(sent)
                         /\ \A k \in DOMAIN given \ {"xyz"} :
                               sent.members.blocks.members.atoms.members[k] = given[k]

\* The reply counts at least one entity in the column of the block.
Selected(reply, block, column) ==
  /\ block \in DOMAIN reply
  /\ column \in DOMAIN reply[block]
  /\ Len(reply[block][column]) >= 1

\* C26: get_selected returns a frame that has the atoms block exactly when the reply
\* has an entry in atoms.x, and the bonds block exactly when the reply has an entry in
\* bonds.bondId, each block as the reply gave it; with no entity in either it returns
\* an empty frame.
C26_SelectionKeepsNonEmpty ==
  (/\ call.op = "get_selected"
   /\ call.arg.out.kind = "return"
   /\ "result" \in DOMAIN call.arg.out.value
   /\ IsDict(call.arg.out.value.result)) =>
    LET reply == call.arg.out.value.result.members
    IN  /\ call.result.kind = "return"
        /\ call.result.value.type = "Frame"
        /\ "atoms" \in DOMAIN call.result.value.blocks <=> Selected(reply, "atoms", "x")
        /\ "bonds" \in DOMAIN call.result.value.blocks <=> Selected(reply, "bonds", "bondId")
        /\ DOMAIN call.result.value.blocks \subseteq {"atoms", "bonds"}
        /\ \A k \in DOMAIN call.result.value.blocks : call.result.value.blocks[k] = reply[k]

\* The reply had both blocks, with selected atoms and no selected bond: the frame
\* returned has the atoms block only.
C26_Witness ==
  /\ call.op = "get_selected"
  /\ call.arg.out = Returned(OkReply(1, JObj([atoms |-> [x |-> <<1, 2>>],
                                               bonds |-> [bondId |-> <<>>]])))
  /\ call.result.kind = "return"
  /\ DOMAIN call.result.value.blocks = {"atoms"}

\* The text without its data-URI prefix: what follows the first comma, if there is one.
WithoutPrefix(text) ==
  LET commas == {k \in DOMAIN text : text[k] = ","}
  IN  IF commas = {}
        THEN text
        ELSE SubSeq(text, (CHOOSE k \in commas : \A j \in commas : k <= j) + 1, Len(text))

\* C27: snapshot returns the bytes that the reply's data field encodes in base64 after
\* its data-URI prefix, if any, is removed; when the reply has no data field it raises
\* ValueError.
C27_SnapshotDecodesAfterPrefix ==
  (call.op = "snapshot" /\ call.arg.out.kind = "return") =>
    LET data == Data(call.arg.out.value)
    IN  IF Has(data, "data")
          THEN LET decoded == a2b_base64(WithoutPrefix(data.members.data), 1, 0, 0, 0, <<>>)
               IN  decoded.kind = "return" =>
                     call.result = Returned([type |-> "bytes", v |-> decoded.v])
          ELSE call.result.kind = "raise" /\ call.result.exc = "ValueError"

\* The reply's data was "d:,QQ==" and snapshot returned the one byte 65.
C27_Witness ==
  /\ call.op = "snapshot"
  /\ call.arg.out = Returned(OkReply(1, JObj([data |-> <<"d", ":", ",", "Q", "Q", "=", "=">>])))
  /\ call.result = Returned([type |-> "bytes", v |-> <<65>>])

\* C28: dump_frame raises nothing whatever the shape of the reply: it returns an empty
\* frame unless the reply is a mapping that holds a frameData mapping, and then a frame
\* with frameData's blocks and metadata.
C28_DumpFrameNeverFails ==
  (call.op = "dump_frame" /\ call.arg.out.kind = "return") =>
    LET data == Data(call.arg.out.value)
    IN  /\ call.result.kind = "return"
        /\ call.result.value.type = "Frame"
        /\ IF Has(data, "frameData") /\ IsDict(data.members.frameData)
             THEN LET frame_data == data.members.frameData.members
                  IN  /\ DOMAIN call.result.value.blocks =
                           (IF "blocks" \in DOMAIN frame_data THEN DOMAIN frame_data.blocks ELSE {})
                      /\ DOMAIN call.result.value.metadata =
                           (IF "metadata" \in DOMAIN frame_data THEN DOMAIN frame_data.metadata ELSE {})
                      /\ \A k \in DOMAIN call.result.value.blocks :
                            call.result.value.blocks[k] = frame_data.blocks[k]
                      /\ \A k \in DOMAIN call.result.value.metadata :
                            call.result.value.metadata[k] = frame_data.metadata[k]
             ELSE /\ DOMAIN call.result.value.blocks = {}
                  /\ DOMAIN call.result.value.metadata = {}

\* C29: a broadcast helper raises nothing; with no instance in the instance set it hands
\* nothing to any scene's transport and returns 0 or nothing; with at least one, exactly
\* one scene of the instance set is handed exactly one request, with the helper's method
\* name, and no slot is registered.
C29_BroadcastThroughOneInstance ==
  [][\A o \in BroadcastOps :
        Broadcast(OpCaller, o) =>
          /\ caller'[OpCaller].kind = "return"
          /\ caller'[OpCaller].value = 0
          /\ IF instances = {}
               THEN scenes' = scenes
               ELSE \E first \in instances :
                      /\ \A self \in DOMAIN scenes \ {first} : scenes'[self] = scenes[self]
                      /\ scenes'[first].sent =
                           Append(scenes[first].sent,
                                  [id |-> scenes[first].request_counter + 1,
                                   method |-> BroadcastMethod(o)])
                      /\ scenes'[first].response_queue = scenes[first].response_queue]_vars

\* A helper was called with no instance left in the set and returned; the scene that had
\* been constructed and closed before was handed the request of close() only.
C29_Witness ==
  /\ caller[OpCaller].op \in BroadcastOps
  /\ caller[OpCaller].kind = "return"
  /\ caller[OpCaller].scene = 0
  /\ instances = {}
  /\ Len(scenes) = 1
  /\ Len(scenes[1].sent) = 1

\* C30: the inbound handler never waits on a consumer: the lock guards the request
\* counter and the slot table (each changes only in a step of the lock's holder), no
\* caller holds the lock while it hands a request to the transport or sleeps, and every
\* invocation of the handler ends, however many calls are pending and however slowly
\* they poll.
C30_HandlerNeverWaitsOnConsumer ==
  /\ [](\A t \in Threads : response_lock = t <=> pc[t] \in {"counter", "register", "check", "pop"})
  /\ [](response_lock = "handler" <=> inbound.pc = "append")
  /\ [][(request_counter' # request_counter \/ response_queue' # response_queue)
          => response_lock # Free /\ response_lock' = Free]_vars
  /\ (inbound.pc # "idle") ~> (inbound.pc = "idle")

\* The handler waits for the lock that one caller holds while another caller, its slot
\* registered and empty, sleeps between two polls.
C30_Witness ==
  /\ inbound.pc = "lock"
  /\ \E t \in Threads : response_lock = t
  /\ \E t \in Threads : pc[t] = "sleep" /\ request_id[t] \in DOMAIN response_queue

\* C31: a fire-style send_cmd returns without waiting for any inbound message and
\* registers no slot; the requests of successive fires (clear() twice) are separate,
\* with consecutive ids, and the only scene state a fire changes is the request counter,
\* which it advances by one.
C31_FireReturnsWithoutWaiting ==
  /\ [](/\ response_queue = <<>>
        /\ pc[OpCaller] \in {"idle", "send"}
        /\ pc[OpCaller] = "send" => ENABLED SendCmdSend(OpCaller)
        /\ \A k \in 1..Len(wire) : wire[k].id = k
        /\ request_counter = Len(wire) + (IF pc[OpCaller] = "send" THEN 1 ELSE 0))
  /\ [][/\ SendCmdSend(OpCaller) =>
             /\ pc'[OpCaller] = "idle"
             /\ result'[OpCaller] = ReturnedSelf
             /\ wire' = Append(wire, [id |-> request_counter, method |-> op[OpCaller]])
             /\ request_counter' = request_counter
        /\ (\E o \in PlainFireOps : SendCmdIssue(OpCaller, o, FALSE, MaxTimeout)) =>
             /\ request_counter' = request_counter + 1
             /\ wire' = wire
        /\ UNCHANGED <<response_queue, registryVars>>]_vars

\* clear() was called twice and has returned twice, with responses arriving meanwhile.
C31_Witness ==
  /\ pc[OpCaller] = "idle"
  /\ result[OpCaller] = ReturnedSelf
  /\ wire = <<[id |-> 1, method |-> "clear"], [id |-> 2, method |-> "clear"]>>
  /\ request_counter = 2
  /\ arrivals > 0

LastSent == wire[Len(wire)]

\* C32: send_cmd hands the caller's buffers to the transport in the same send as the
\* JSON request, unchanged and in the given order; the buffer-based draw_frame sends
\* the atoms table as buffer 0 and, if and only if the frame has bonds, the bonds table
\* as buffer 1.
C32_BuffersSentInOrder ==
  /\ (call.op = "send_cmd" /\ call.kind = "self") =>
       /\ Member(loads(LastSent.text), "id") = PInt(request_counter)
       /\ LastSent.buffers = call.arg.buffers.items
  /\ call.op = "init_draw_frame" =>
       /\ call.kind = "self"
       /\ wire # <<>>
       /\ Member(loads(LastSent.text), "method") = PStr("draw_frame")
       /\ LastSent.buffers[1].table = "atoms"
       /\ Len(LastSent.buffers) = (IF call.arg.bonds THEN 2 ELSE 1)
       /\ call.arg.bonds => LastSent.buffers[2].table = "bonds"

\* The index a placeholder string names.
BufferIndex ==
  [str \in {"__buffer.0", "__buffer.1", "__buffer.2"} |->
     CASE str = "__buffer.0" -> 0 [] str = "__buffer.1" -> 1 [] OTHER -> 2]

\* The placeholders among the values of a parsed params mapping.
Placeholders(params) ==
  {params.vals[i].s : i \in {j \in DOMAIN params.vals :
                               /\ params.vals[j].t = "str"
                               /\ params.vals[j].s \in DOMAIN BufferIndex}}

\* C33: in every request handed to the transport, each params value of the form
\* "__buffer.<N>" has N smaller than the number of buffers attached to that request.
C33_PlaceholdersInRange ==
  \A k \in DOMAIN wire :
    \A str \in Placeholders(Member(loads(wire[k].text), "params")) :
      BufferIndex[str] < Len(wire[k].buffers)

C35_WaitForReadyEnds ==
  /\ [][\A t \in Threads :
          WaitForReadyTest(t) =>
            /\ ready => pc'[t] = "idle" /\ result'[t] = Returned(JBool(TRUE))
            /\ (~ready /\ elapsed[t] > timeout[t]) =>
                 pc'[t] = "idle" /\ result'[t] = Returned(JBool(FALSE))
            /\ (~ready /\ elapsed[t] <= timeout[t]) => pc'[t] # "idle"]_vars
  /\ [][/\ UNCHANGED <<request_counter, response_queue, wire, registryVars>>
        /\ ready' # ready => pc' = pc]_vars
  /\ \A t \in Threads : (pc[t] # "idle") ~> (pc[t] = "idle")

\* One caller has given up on a scene that was not ready after more than its timeout;
\* the other was answered True by a scene that had become ready while it slept.
C35_Witness ==
  \E t, u \in Threads :
    /\ pc[t] = "idle" /\ result[t] = Returned(JBool(FALSE)) /\ elapsed[t] > timeout[t]
    /\ pc[u] = "idle" /\ result[u] = Returned(JBool(TRUE)) /\ elapsed[u] > 0

\* C36: requests of one scene reach the transport in strictly increasing id order, for
\* every interleaving of concurrent send_cmd callers on that scene.
C36_WireInIdOrder ==
  \A j, k \in DOMAIN wire : j < k => wire[j].id < wire[k].id

\* The ids that send_cmd has given to thread t.
IdsOf(t) == {ids[t][i] : i \in DOMAIN ids[t]}

\* C36, amended: no two requests on the transport have the same id, and the requests of
\* any one caller reach the transport in strictly increasing id order; requests of
\* concurrent callers may reach it in either order.
C36_EachCallerInIdOrder ==
  /\ \A j, k \in DOMAIN wire : j # k => wire[j].id # wire[k].id
  /\ \A t \in Threads :
       \A j, k \in DOMAIN wire :
         (j < k /\ wire[j].id \in IdsOf(t) /\ wire[k].id \in IdsOf(t)) => wire[j].id < wire[k].id

\* Two callers were given ids 1 and 2, and request 2 reached the transport first.
C36_Witness ==
  /\ Len(wire) = 2
  /\ wire[1].id = 2
  /\ wire[2].id = 1
  /\ \E t, u \in Threads : t # u /\ 1 \in IdsOf(t) /\ 2 \in IdsOf(u)

\* The operation that raised had passed its own checks and was inside send_cmd.
RaisedInSendCmd(c) ==
  \/ c.op \in {"send_cmd", "clear", "set_theme"}
  \/ c.op = "draw_frame" /\ draw_frame(c.arg).exc = ""

\* The id a request on the transport carries.
IdSent(k) == Member(loads(wire[k].text), "id").n

SerialOf(response) == response.result.members.n

\* The responses appended to the slot of request i, and the first of them.
AppendedFor(i) == {r \in appended : r.id = i}

\* C37: a blocking call returns at most one response: when the peer answers one id
\* several times, the call returns the first response handled after its slot was
\* registered; the others stay in that slot only, go with it when the call ends, and are
\* returned to no call.
C37_OnlyFirstResponseReturned ==
  /\ \A t \in Threads : \A r \in appended :
       (pending[t] = Returned(r) \/ result[t] = Returned(r)) =>
         /\ r.id = request_id[t]
         /\ \A other \in AppendedFor(r.id) : SerialOf(r) <= SerialOf(other)
  /\ \A r \in appended : \A i \in DOMAIN response_queue : \A k \in DOMAIN response_queue[i] :
       response_queue[i][k] = r =>
         /\ i = r.id
         /\ \E t \in Threads : pc[t] \in {"loop", "finally"} /\ request_id[t] = i
  /\ \A t \in Threads : pc[t] = "idle" => request_id[t] \notin DOMAIN response_queue

\* The peer answered a request twice while its call waited; the call has returned the
\* first answer and the second is gone with the slot.
C37_Witness ==
  \E first, second \in appended :
    /\ first.id = second.id
    /\ SerialOf(first) < SerialOf(second)
    /\ pc[OpCaller] = "idle"
    /\ result[OpCaller] = Returned(first)
    /\ response_queue = <<>>

\* C38: when the handler runs only while the host thread is in no operation, every
\* blocking call with a finite timeout ends, in TimeoutError, and its response, handled
\* afterwards, finds no slot and is dropped.
C38_SameThreadCallTimesOut ==
  /\ [](\A i \in DOMAIN response_queue : response_queue[i] = <<>>)
  /\ [](pending[OpCaller].kind \in {"none", "raise"})
  /\ []((pc[OpCaller] = "idle" /\ wait_for_response[OpCaller]) =>
          /\ result[OpCaller] = Raised("TimeoutError")
          /\ request_id[OpCaller] \in timedOut)
  /\ [](Cardinality(dropped) = arrivals)
  /\ (pc[OpCaller] # "idle") ~> (pc[OpCaller] = "idle")

\* A blocking call has ended in TimeoutError and the response for its id was handled
\* after that and dropped.
C38_Witness ==
  /\ pc[OpCaller] = "idle"
  /\ result[OpCaller] = Raised("TimeoutError")
  /\ \E d \in dropped : d.response.id = request_id[OpCaller] /\ d.response.id \in timedOut

=============================================================================
